---- MODULE Spec2Model ----
(***************************************************************************)
(* TelegramAutoClone: the durable recovery queue (app/db.py), the recovery *)
(* worker (app/services/recovery_worker.py), the history clone engine      *)
(* (app/services/clone_service.py) and the standby pool                    *)
(* (app/services/channel_service.py, bot_channel_sync_service.py).         *)
(*                                                                         *)
(* The program is one asyncio process.  Every `await` on the store or on   *)
(* the upstream is a suspension point, so every coroutine is modelled as a *)
(* small program counter machine whose steps are the pieces of code        *)
(* between two awaits.  A store write (Database._execute and the methods   *)
(* that take _write_lock themselves) is one atomic step; a read is one     *)
(* atomic step; a read followed by a write is two steps.                   *)
(***************************************************************************)
EXTENDS Integers, Sequences, FiniteSets, TLC

\* ---------------------------------------------------------------- bounds
MaxJobs == 2          \* rows ever inserted into recovery_queue
QueueHist == 2        \* highest source message id, queue specifications
CloneHist == 8        \* highest source message id, clone specification
NumGroupedIds == 1    \* distinct album grouped_id values in the source history
RetryCap == 4           \* a job whose retry_count reached this is not run again
MaxRefLen == 4        \* units in a chat reference passed to normalize_chat_ref

\* ------------------------------------------------------ program constants
ProgressEvery == 5    \* clone_service.py: pending_checkpoint_count >= 5
RecoveryMaxRetry == 3 \* config.py: recovery_max_retry default

Chats == {"c1", "c2", "c3"}      \* channel chat ids; "" is SQL NULL
NoChat == ""
AllKeys == {<<1, 1>>, <<1, 2>>, <<2, 1>>}   \* (source_group_id, topic_id)
GroupIds == {k[1] : k \in AllKeys}
Workers == {"loop", "panel"}     \* recovery_loop and one control-panel request
Callers == {"monitor", "listener"}

NonTerminal == {"pending", "running", "stopping"}
Statuses == {"pending", "running", "stopping", "stopped", "done", "failed"}

VARIABLES
    groups,     \* source_groups: ids of the rows present
    topics,     \* topics: (source_group_id, topic_id) of the rows present
    channels,   \* channels: the rows in id order, [chat_id, is_standby, in_use]
    bindings,   \* topic_bindings: key -> [present, channel_chat_id, active]
    banned,     \* banned_channels: set of <<sg, topic, channel>>
    queue,      \* recovery_queue: id -> row (status "absent": no such row)
    queueSeq,   \* recovery_queue AUTOINCREMENT: last id issued
    histMax,    \* highest message id of the source chat history
    sgEnabled,  \* source_groups.enabled: ids of the rows with enabled=1
    topicEnabled, \* topics.enabled: keys of the rows with enabled=1
    wk,         \* RecoveryWorker.run_once invocations: worker -> locals
    enq,        \* monitor / listener failure handling in flight
    op,         \* control-panel queue command in flight
    chop,       \* channel-service or binding command in flight
    hw          \* per job: highest checkpoint committed by update_recovery_progress
                \* since the job was inserted or restarted (history variable)

storeVars == <<groups, topics, channels, bindings, banned>>
queueVars == <<queue, queueSeq>>
vars == <<groups, topics, channels, bindings, banned, queue, queueSeq,
          histMax, sgEnabled, topicEnabled, wk, enq, op, chop, hw>>

\* ------------------------------------------------------------------ rows
NoRow == [sg |-> 0, topic |-> 0, old |-> NoChat, new |-> NoChat, reason |-> "",
          status |-> "absent", retry |-> 0, last |-> 0]

JobIds == 1..MaxJobs
Present(q, id) == id \in JobIds /\ q[id].status # "absent"

NoBinding == [present |-> FALSE, channel |-> NoChat, active |-> FALSE]

Max(a, b) == IF a >= b THEN a ELSE b

\* ------------------------------------------------------------- channels
ChanIndex(chs, c) ==
    IF \E i \in 1..Len(chs) : chs[i].chat_id = c
    THEN CHOOSE i \in 1..Len(chs) : chs[i].chat_id = c
    ELSE 0

HasChannel(chs, c) == ChanIndex(chs, c) # 0

get_channel(chs, c) == chs[ChanIndex(chs, c)]

\* INSERT ... ON CONFLICT(chat_id) DO UPDATE SET is_standby, in_use
upsert_channel(chs, c, is_standby, in_use) ==
    IF HasChannel(chs, c)
    THEN [chs EXCEPT ![ChanIndex(chs, c)] =
             [chat_id |-> c, is_standby |-> is_standby, in_use |-> in_use]]
    ELSE Append(chs, [chat_id |-> c, is_standby |-> is_standby, in_use |-> in_use])

\* DELETE FROM channels WHERE chat_id=?
RECURSIVE FilterSeq(_, _)
FilterSeq(s, keep) ==
    IF s = <<>> THEN <<>>
    ELSE IF Head(s).chat_id \in keep
         THEN <<Head(s)>> \o FilterSeq(Tail(s), keep)
         ELSE FilterSeq(Tail(s), keep)

ChatsOf(chs) == {chs[i].chat_id : i \in 1..Len(chs)}

delete_channel(chs, c) == FilterSeq(chs, ChatsOf(chs) \ {c})

\* DELETE FROM channels WHERE in_use=0
clear_standby_channels(chs) ==
    FilterSeq(chs, {chs[i].chat_id : i \in {j \in 1..Len(chs) : chs[j].in_use}})

\* UPDATE channels SET is_standby=0, in_use=1 WHERE chat_id=?
consume_standby_channel(chs, c) ==
    [i \in 1..Len(chs) |->
        IF chs[i].chat_id = c
        THEN [chs[i] EXCEPT !.is_standby = FALSE, !.in_use = TRUE]
        ELSE chs[i]]

\* UPDATE channels SET is_standby=0 WHERE in_use=0
reset_available_standby_channels(chs) ==
    [i \in 1..Len(chs) |->
        IF ~chs[i].in_use THEN [chs[i] EXCEPT !.is_standby = FALSE] ELSE chs[i]]

\* SELECT * FROM channels WHERE is_standby=1 AND in_use=0 ORDER BY id ASC
StandbyIdx(chs) == {i \in 1..Len(chs) : chs[i].is_standby /\ ~chs[i].in_use}

list_standby_channels(chs) ==
    LET rows == FilterSeq(chs, {chs[i].chat_id : i \in StandbyIdx(chs)})
    IN [i \in 1..Len(rows) |-> rows[i].chat_id]

\* ... ORDER BY id ASC LIMIT 1  (NoChat: no row)
get_next_available_standby_channel(chs) ==
    IF StandbyIdx(chs) = {} THEN NoChat
    ELSE chs[CHOOSE i \in StandbyIdx(chs) : \A j \in StandbyIdx(chs) : i <= j].chat_id

\* ------------------------------------------------------------- bindings
\* SELECT * FROM topic_bindings WHERE channel_chat_id=? AND active=1
get_binding_by_channel(bs, c) ==
    {k \in AllKeys : bs[k].present /\ bs[k].active /\ bs[k].channel = c}

\* upsert_binding, first statement: INSERT ... ON CONFLICT DO UPDATE SET
\* channel_chat_id, active=1
upsert_binding_row(bs, k, c) ==
    [bs EXCEPT ![k] = [present |-> TRUE, channel |-> c, active |-> TRUE]]

\* upsert_binding, second statement: UPDATE channels SET in_use=1, is_standby=0
upsert_binding_channel(chs, c) ==
    [i \in 1..Len(chs) |->
        IF chs[i].chat_id = c
        THEN [chs[i] EXCEPT !.in_use = TRUE, !.is_standby = FALSE]
        ELSE chs[i]]

\* UPDATE topic_bindings SET active=? WHERE source_group_id=? AND topic_id=?
set_binding_active(bs, k, a) ==
    IF bs[k].present THEN [bs EXCEPT ![k].active = a] ELSE bs

\* UPDATE topic_bindings SET active=0 WHERE channel_chat_id=?
detach_channel_bindings(bs, c) ==
    [k \in AllKeys |->
        IF bs[k].present /\ bs[k].channel = c
        THEN [bs[k] EXCEPT !.active = FALSE] ELSE bs[k]]

\* ---------------------------------------------------------------- queue
\* SELECT id ... WHERE source_group_id=? AND topic_id=? AND status IN (...)
\* ORDER BY id DESC LIMIT 1  (0: no row)
ExistingJob(q, k, statuses) ==
    LET S == {i \in JobIds : q[i].status \in statuses
                             /\ q[i].sg = k[1] /\ q[i].topic = k[2]}
    IN IF S = {} THEN 0 ELSE CHOOSE i \in S : \A j \in S : j <= i

EnqueueStatuses_bad == {"running"}

EnqueueStatuses == {"pending", "running"}

ManualStatuses_bad == {"pending", "running"}

ManualStatuses == {"pending", "running", "stopping"}

\* enqueue_recovery: INSERT ... VALUES (sg, topic, old, reason, 'pending', 0, 0)
InsertRecovery(q, id, k, old, reason) ==
    [q EXCEPT ![id] = [sg |-> k[1], topic |-> k[2], old |-> old, new |-> NoChat,
                       reason |-> reason, status |-> "pending",
                       retry |-> 0, last |-> 0]]

\* enqueue_manual_recovery: INSERT ... VALUES (sg, topic, ch, ch, reason, 'pending', 0, 0)
InsertManual(q, id, k, ch) ==
    [q EXCEPT ![id] = [sg |-> k[1], topic |-> k[2], old |-> ch, new |-> ch,
                       reason |-> "manual", status |-> "pending",
                       retry |-> 0, last |-> 0]]

\* enqueue_recovery as one uninterrupted call: the queue, the sequence and
\* the id returned
enqueue_recovery(q, seq, k, old, reason) ==
    LET e == ExistingJob(q, k, EnqueueStatuses) IN
    IF e # 0 THEN [queue |-> q, seq |-> seq, id |-> e]
    ELSE [queue |-> InsertRecovery(q, seq + 1, k, old, reason),
          seq |-> seq + 1, id |-> seq + 1]

\* enqueue_manual_recovery as one uninterrupted call
enqueue_manual_recovery(q, seq, k, ch) ==
    LET e == ExistingJob(q, k, ManualStatuses) IN
    IF e # 0 THEN [queue |-> q, seq |-> seq, id |-> e]
    ELSE [queue |-> InsertManual(q, seq + 1, k, ch),
          seq |-> seq + 1, id |-> seq + 1]

\* UPDATE recovery_queue SET ... WHERE id=?   (no row: nothing changes)
UpdateJob(q, id, row) ==
    IF Present(q, id) THEN [q EXCEPT ![id] = row] ELSE q

\* a variant that takes the newest pending job (ORDER BY id DESC)
NextPending_bad(q) ==
    LET S == {i \in JobIds : q[i].status = "pending"}
    IN IF S = {} THEN 0 ELSE CHOOSE i \in S : \A j \in S : i >= j

\* SELECT * FROM recovery_queue WHERE status='pending' ORDER BY id ASC LIMIT 1
NextPending(q) ==
    LET S == {i \in JobIds : q[i].status = "pending"}
    IN IF S = {} THEN 0 ELSE CHOOSE i \in S : \A j \in S : i <= j

\* a variant that reports only a stop already completed
is_recovery_stop_requested_bad(q, id) ==
    IF ~Present(q, id) THEN TRUE ELSE q[id].status = "stopped"

\* is_recovery_stop_requested
is_recovery_stop_requested(q, id) ==
    IF ~Present(q, id) THEN TRUE ELSE q[id].status \in {"stopping", "stopped"}

\* a variant whose UPDATE also takes the rows in stopping
reset_running_recovery_tasks_bad(q) ==
    [i \in JobIds |->
        IF q[i].status \in {"running", "stopping"}
        THEN [q[i] EXCEPT !.status = "pending"] ELSE q[i]]

\* reset_running_recovery_tasks: UPDATE ... SET status='pending' WHERE status='running'
reset_running_recovery_tasks(q) ==
    [i \in JobIds |->
        IF q[i].status = "running" THEN [q[i] EXCEPT !.status = "pending"] ELSE q[i]]

\* cur.rowcount of that UPDATE: the rows matching WHERE status='running'
rowcount_running(q) == Cardinality({i \in JobIds : q[i].status = "running"})

\* clear_recovery_queue
clear_recovery_queue(q, include_running) ==
    [i \in JobIds |->
        IF include_running \/ q[i].status \notin {"running", "stopping"}
        THEN NoRow ELSE q[i]]

\* a variant that retries once more than max_retry allows
mark_recovery_failed_bad(q, id, retry_count, max_retry) ==
    LET to == IF retry_count + 1 <= max_retry THEN "pending" ELSE "failed"
        r == q[id]
        f == [r EXCEPT !.status = to, !.retry = retry_count + 1]
    IN UpdateJob(q, id, f)

\* mark_recovery_failed
mark_recovery_failed(q, id, retry_count, max_retry) ==
    LET to == IF retry_count + 1 < max_retry THEN "pending" ELSE "failed"
        r == q[id]
        f == [r EXCEPT !.status = to, !.retry = retry_count + 1]
    IN UpdateJob(q, id, f)

\* update_recovery_progress
update_recovery_progress(q, id, k) ==
    LET r == q[id]
        f == [r EXCEPT !.last = k] IN UpdateJob(q, id, f)

\* mark_recovery_assigned_channel
mark_recovery_assigned_channel(q, id, c) ==
    LET r == q[id]
        f == [r EXCEPT !.new = c] IN UpdateJob(q, id, f)

\* last_cloned_message_id: int | None = None
None == -1

\* a variant that overwrites the checkpoint even when none is supplied
mark_recovery_done_bad(q, id, c, k) ==
    LET r == q[id]
        f == [r EXCEPT !.status = "done", !.new = c,
                       !.last = IF k = None THEN 0 ELSE k]
    IN UpdateJob(q, id, f)

\* mark_recovery_done: last_cloned_message_id=COALESCE(?, last_cloned_message_id)
mark_recovery_done(q, id, c, k) ==
    LET r == q[id]
        f == [r EXCEPT !.status = "done", !.new = c,
                       !.last = IF k = None THEN r.last ELSE k]
    IN UpdateJob(q, id, f)

\* mark_recovery_stopped
mark_recovery_stopped(q, id, k) ==
    LET r == q[id]
        f == [r EXCEPT !.status = "stopped", !.last = k] IN UpdateJob(q, id, f)

\* =================================================================
\* RecoveryWorker.run_once
\* =================================================================
NoJob == [id |-> 0, sg |-> 0, topic |-> 0, old |-> NoChat, new |-> NoChat,
          retry |-> 0, last |-> 0]

\* the dict claim_next_recovery / claim_recovery_by_id return
Snapshot(q, id) ==
    [id |-> id, sg |-> q[id].sg, topic |-> q[id].topic, old |-> q[id].old,
     new |-> q[id].new, retry |-> q[id].retry, last |-> q[id].last]

IdleW == [pc |-> "idle", job |-> NoJob, chan |-> NoChat, err |-> "",
          pos |-> 0, ckpt |-> 0, pend |-> 0, gseen |-> {}, gtop |-> {},
          cur |-> 0, curMax |-> 0, final |-> FALSE,
          yielded |-> 0, ret |-> 0, lastRead |-> 0, hookLog |-> <<>>,
          cloned |-> FALSE]

Busy(w) == wk[w].pc # "idle"

SetW(w, r) == wk' = [wk EXCEPT ![w] = r]

\* what of an invocation's locals outlives the call of clone_topic_history
AfterClone(r) ==
    [IdleW EXCEPT !.job = r.job, !.chan = r.chan, !.cloned = r.cloned]

\* raise inside the try block: control goes to `except Exception as exc`
Raise(w, text) ==
    SetW(w, [AfterClone(wk[w]) EXCEPT !.pc = "except", !.err = text])

\* run_once returns: the invocation is over
Return(w) == SetW(w, IdleW)

\* effective_start_message_id = max(requested_start_message_id, topic_id)
EffectiveStart(start, topic_id) == Max(start, topic_id)

\* claim_next_recovery: under _write_lock, select the oldest pending and set it running
claim_next_recovery(w) ==
    /\ wk[w].pc = "idle"
    /\ NextPending(queue) # 0
    /\ queue[NextPending(queue)].retry < RetryCap
    /\ LET id == NextPending(queue) IN
        /\ queue' = [queue EXCEPT ![id].status = "running"]
        /\ SetW(w, [IdleW EXCEPT !.pc = "resolve", !.job = Snapshot(queue, id)])
    /\ UNCHANGED <<storeVars, queueSeq, histMax, sgEnabled, topicEnabled, enq, op, chop, hw>>

\* a variant that refuses only a done job
ClaimByIdRefused_bad == {"done"}

\* statuses claim_recovery_by_id refuses
ClaimByIdRefused == {"done", "running"}

\* claim_recovery_by_id (control panel: run-once by id, continue, restart, manual start)
claim_recovery_by_id(w, id) ==
    /\ w = "panel"
    /\ wk[w].pc = "idle"
    /\ Present(queue, id)
    /\ queue[id].status \notin ClaimByIdRefused
    /\ queue[id].retry < RetryCap
    /\ queue' = [queue EXCEPT ![id].status = "running"]
    /\ SetW(w, [IdleW EXCEPT !.pc = "resolve", !.job = Snapshot(queue, id)])
    /\ UNCHANGED <<storeVars, queueSeq, histMax, sgEnabled, topicEnabled, enq, op, chop, hw>>

\* get_source_group_by_id, get_topic
W_Resolve(w) ==
    /\ wk[w].pc = "resolve"
    /\ IF wk[w].job.sg \notin groups \/ <<wk[w].job.sg, wk[w].job.topic>> \notin topics
       THEN Raise(w, "error")
       ELSE SetW(w, [wk[w] EXCEPT !.pc = "select"])
    /\ UNCHANGED <<storeVars, queueVars, histMax, sgEnabled, topicEnabled, enq, op, chop, hw>>

\* start of clone_topic_history
StartClone(r, ch) ==
    [r EXCEPT !.pc = "iter", !.chan = ch,
              !.pos = EffectiveStart(r.job.last, r.job.topic),
              !.ckpt = EffectiveStart(r.job.last, r.job.topic),
              !.pend = 0, !.gseen = {}, !.gtop = {}, !.final = FALSE]

\* assigned_channel = job.get("new_channel_chat_id"), else
\* get_next_available_standby_channel
W_Select(w) ==
    /\ wk[w].pc = "select"
    /\ IF wk[w].job.new # NoChat
       THEN SetW(w, StartClone(wk[w], wk[w].job.new))
       ELSE IF get_next_available_standby_channel(channels) = NoChat
            THEN Raise(w, "error")
            ELSE SetW(w, [wk[w] EXCEPT !.pc = "rename",
                            !.chan = get_next_available_standby_channel(channels)])
    /\ UNCHANGED <<storeVars, queueVars, histMax, sgEnabled, topicEnabled, enq, op, chop, hw>>

\* channel_service.rename_channel: an upstream call that may raise
W_Rename(w) ==
    /\ wk[w].pc = "rename"
    /\ \/ SetW(w, [wk[w] EXCEPT !.pc = "consume"])
       \/ Raise(w, "error")
    /\ UNCHANGED <<storeVars, queueVars, histMax, sgEnabled, topicEnabled, enq, op, chop, hw>>

W_Consume(w) ==
    /\ wk[w].pc = "consume"
    /\ channels' = consume_standby_channel(channels, wk[w].chan)
    /\ SetW(w, [wk[w] EXCEPT !.pc = "detach"])
    /\ UNCHANGED <<groups, topics, bindings, banned, queueVars, histMax, sgEnabled, topicEnabled, enq, op, chop, hw>>

W_Detach(w) ==
    /\ wk[w].pc = "detach"
    /\ bindings' = detach_channel_bindings(bindings, wk[w].job.old)
    /\ SetW(w, [wk[w] EXCEPT !.pc = "bind1"])
    /\ UNCHANGED <<groups, topics, channels, banned, queueVars, histMax, sgEnabled, topicEnabled, enq, op, chop, hw>>

\* upsert_binding: two _execute calls and a read
W_Bind1(w) ==
    /\ wk[w].pc = "bind1"
    /\ bindings' = upsert_binding_row(bindings, <<wk[w].job.sg, wk[w].job.topic>>, wk[w].chan)
    /\ SetW(w, [wk[w] EXCEPT !.pc = "bind2"])
    /\ UNCHANGED <<groups, topics, channels, banned, queueVars, histMax, sgEnabled, topicEnabled, enq, op, chop, hw>>

W_Bind2(w) ==
    /\ wk[w].pc = "bind2"
    /\ channels' = upsert_binding_channel(channels, wk[w].chan)
    /\ SetW(w, [wk[w] EXCEPT !.pc = "bind3"])
    /\ UNCHANGED <<groups, topics, bindings, banned, queueVars, histMax, sgEnabled, topicEnabled, enq, op, chop, hw>>

W_Bind3(w) ==
    /\ wk[w].pc = "bind3"
    /\ IF bindings[<<wk[w].job.sg, wk[w].job.topic>>].present
       THEN SetW(w, [wk[w] EXCEPT !.pc = "assign"])
       ELSE Raise(w, "error")
    /\ UNCHANGED <<storeVars, queueVars, histMax, sgEnabled, topicEnabled, enq, op, chop, hw>>

W_Assign(w) ==
    /\ wk[w].pc = "assign"
    /\ queue' = mark_recovery_assigned_channel(queue, wk[w].job.id, wk[w].chan)
    /\ SetW(w, StartClone(wk[w], wk[w].chan))
    /\ UNCHANGED <<storeVars, queueSeq, histMax, sgEnabled, topicEnabled, enq, op, chop, hw>>

\* -----------------------------------------------------------------
\* CloneService.clone_topic_history, as run_once calls it
\* (progress_hook = save_checkpoint, should_stop = check_should_stop).
\* The source history is the upstream's: iter_messages(reverse=True,
\* min_id=effective_start) yields ids above min_id in increasing order,
\* and what each message is (in the topic or not, part of an album or
\* not, cloneable or not) is the upstream's choice.
\* -----------------------------------------------------------------
GroupedIds == 1..NumGroupedIds

\* checkpoint after an album: max(int(m.id) for m in group_messages)
AlbumCheckpoint(ckpt, ref, gmax) == gmax

\* checkpoint after a single message: current_message_id
SingleCheckpoint(ckpt, id) == id

\* the async for loop is over: `if progress_hook and checkpoint_message_id > 0`
\* a variant that returns without the final hook call
AfterLoop_bad(r) ==
    [r EXCEPT !.pc = "markdone", !.ret = r.ckpt]

AfterLoop(r) ==
    IF r.ckpt > 0
    THEN [r EXCEPT !.pc = "hook", !.final = TRUE]
    ELSE [r EXCEPT !.pc = "markdone", !.ret = r.ckpt]

\* one turn of `async for message in iter_messages(...)` up to the unit's clone:
\* the iterator's answer, should_stop(), in_topic(), the processed_groups test
\* and _collect_media_group_messages
W_Iter(w) ==
    /\ wk[w].pc = "iter"
    /\ \/ \* the iterator is exhausted
          SetW(w, AfterLoop(wk[w]))
       \/ \* the upstream read raises
          Raise(w, "error")
       \/ \E n \in (wk[w].pos + 1)..histMax :
            LET r == [wk[w] EXCEPT !.pos = n, !.yielded = n,
                                   !.gtop = {x \in @ : x > n}] IN
            IF is_recovery_stop_requested(queue, wk[w].job.id)
            THEN Raise(w, "stopped")
            ELSE IF n \in wk[w].gtop
            THEN \* the highest member of an album already processed: continue
                 SetW(w, r)
            ELSE \/ \* not in_topic: continue
                    SetW(w, r)
                 \/ \* a single in-topic message
                    SetW(w, [r EXCEPT !.pc = "clone", !.cur = n, !.curMax = 0])
                 \/ \* an in-topic album message
                    \E g \in GroupedIds :
                      IF g \in wk[w].gseen
                      THEN SetW(w, r)
                      ELSE \E gmax \in n..histMax :
                             SetW(w, [r EXCEPT !.pc = "clone", !.cur = n,
                                               !.curMax = gmax,
                                               !.gseen = @ \cup {g},
                                               !.gtop = r.gtop \cup
                                                   (IF gmax > n THEN {gmax} ELSE {})])
    /\ UNCHANGED <<storeVars, queueVars, histMax, sgEnabled, topicEnabled, enq, op, chop, hw>>

\* the unit's clone (clone_message_no_reference or
\* _clone_media_group_no_reference), then the checkpoint bookkeeping
W_Clone(w) ==
    /\ wk[w].pc = "clone"
    /\ \/ \* the unit is cloned, or skipped as not cloneable
          LET c == IF wk[w].curMax # 0
                   THEN AlbumCheckpoint(wk[w].ckpt, wk[w].cur, wk[w].curMax)
                   ELSE SingleCheckpoint(wk[w].ckpt, wk[w].cur)
              p == wk[w].pend + 1
          IN SetW(w, [wk[w] EXCEPT !.ckpt = c, !.pend = p, !.cur = 0, !.curMax = 0,
                         !.pc = IF p >= ProgressEvery THEN "hook" ELSE "iter"])
       \/ \* the clone fails: RuntimeError
          Raise(w, "error")
    /\ UNCHANGED <<storeVars, queueVars, histMax, sgEnabled, topicEnabled, enq, op, chop, hw>>

\* save_checkpoint(last_message_id): `if await check_should_stop(): raise`
W_Hook(w) ==
    /\ wk[w].pc = "hook"
    /\ LET r == [wk[w] EXCEPT !.hookLog = Append(@, wk[w].ckpt)] IN
       IF is_recovery_stop_requested(queue, wk[w].job.id)
       THEN SetW(w, [AfterClone(r) EXCEPT !.pc = "except", !.err = "stopped",
                                          !.hookLog = r.hookLog])
       ELSE SetW(w, [r EXCEPT !.pc = "hookw"])
    /\ UNCHANGED <<storeVars, queueVars, histMax, sgEnabled, topicEnabled, enq, op, chop, hw>>

\* save_checkpoint: await self.db.update_recovery_progress(queue_id, last_message_id)
W_HookWrite(w) ==
    /\ wk[w].pc = "hookw"
    /\ queue' = update_recovery_progress(queue, wk[w].job.id, wk[w].ckpt)
    /\ hw' = IF Present(queue, wk[w].job.id)
             THEN [hw EXCEPT ![wk[w].job.id] = Max(@, wk[w].ckpt)]
             ELSE hw
    /\ IF wk[w].final
       THEN SetW(w, [wk[w] EXCEPT !.pc = "markdone", !.ret = wk[w].ckpt])
       ELSE SetW(w, [wk[w] EXCEPT !.pc = "iter", !.pend = 0])
    /\ UNCHANGED <<storeVars, queueSeq, histMax, sgEnabled, topicEnabled, enq, op, chop>>

\* mark_recovery_done(queue_id, new_channel_id, summary,
\*     int(clone_stats.get("last_cloned_message_id") or start_message_id))
W_MarkDone(w) ==
    /\ wk[w].pc = "markdone"
    /\ queue' = mark_recovery_done(queue, wk[w].job.id, wk[w].chan,
                    IF wk[w].ret # 0 THEN wk[w].ret ELSE wk[w].job.last)
    /\ SetW(w, [AfterClone(wk[w]) EXCEPT !.pc = "notify", !.cloned = TRUE])
    /\ UNCHANGED <<storeVars, queueSeq, histMax, sgEnabled, topicEnabled, enq, op, chop, hw>>

\* what connecting the Bot client or sending through it can do
NotifyOutcomes == {"ok", "fail"}

\* TelegramManager.send_notification: nothing without notify_chat_id;
\* ensure_bot_connected (connect unless connected) before the try; the send
\* inside `try ... except Exception` is logged.  "raise": an exception leaves
\* the call
send_notification(notify_chat_id, is_connected, connect, send) ==
    IF ~notify_chat_id THEN "return"
    ELSE IF ~is_connected /\ connect = "fail" THEN "raise"
    ELSE "return"

\* run_once on success: send_notification after mark_recovery_done, inside
\* the try block
W_Notify(w) ==
    /\ wk[w].pc = "notify"
    /\ \E notify_chat_id \in BOOLEAN, is_connected \in BOOLEAN,
          connect \in NotifyOutcomes, send \in NotifyOutcomes :
          IF send_notification(notify_chat_id, is_connected, connect, send) = "raise"
          THEN Raise(w, "error")
          ELSE SetW(w, [wk[w] EXCEPT !.pc = "rmban"])
    /\ UNCHANGED <<storeVars, queueVars, histMax, sgEnabled, topicEnabled, enq, op, chop, hw>>

\* remove_banned_channel(source_group_id, topic_id, old_channel_id)
W_RemoveBan(w) ==
    /\ wk[w].pc = "rmban"
    /\ banned' = banned \ {<<wk[w].job.sg, wk[w].job.topic, wk[w].job.old>>}
    /\ SetW(w, [wk[w] EXCEPT !.pc = "delrd"])
    /\ UNCHANGED <<groups, topics, channels, bindings, queueVars, histMax, sgEnabled, topicEnabled, enq, op, chop, hw>>

\* delete_recovery_task: the read (raises for running / stopping)
W_DeleteRead(w) ==
    /\ wk[w].pc = "delrd"
    /\ IF ~Present(queue, wk[w].job.id)
       THEN Return(w)
       ELSE IF queue[wk[w].job.id].status \in {"running", "stopping"}
            THEN Raise(w, "error")
            ELSE SetW(w, [wk[w] EXCEPT !.pc = "delwr"])
    /\ UNCHANGED <<storeVars, queueVars, histMax, sgEnabled, topicEnabled, enq, op, chop, hw>>

\* delete_recovery_task: DELETE FROM recovery_queue WHERE id=?
W_DeleteWrite(w) ==
    /\ wk[w].pc = "delwr"
    /\ queue' = [queue EXCEPT ![wk[w].job.id] = NoRow]
    /\ Return(w)
    /\ UNCHANGED <<storeVars, queueSeq, histMax, sgEnabled, topicEnabled, enq, op, chop, hw>>

\* except Exception: the stop marker in the text, or is_recovery_stop_requested
W_Except(w) ==
    /\ wk[w].pc = "except"
    /\ IF wk[w].err = "stopped" \/ is_recovery_stop_requested(queue, wk[w].job.id)
       THEN SetW(w, [wk[w] EXCEPT !.pc = "stoprd"])
       ELSE SetW(w, [wk[w] EXCEPT !.pc = "failw"])
    /\ UNCHANGED <<storeVars, queueVars, histMax, sgEnabled, topicEnabled, enq, op, chop, hw>>

\* row = get_recovery_by_id(queue_id); last_id = row.last_cloned_message_id or 0
W_StopRead(w) ==
    /\ wk[w].pc = "stoprd"
    /\ SetW(w, [wk[w] EXCEPT !.pc = "stopw",
                  !.lastRead = IF Present(queue, wk[w].job.id)
                               THEN queue[wk[w].job.id].last ELSE 0])
    /\ UNCHANGED <<storeVars, queueVars, histMax, sgEnabled, topicEnabled, enq, op, chop, hw>>

W_MarkStopped(w) ==
    /\ wk[w].pc = "stopw"
    /\ queue' = mark_recovery_stopped(queue, wk[w].job.id, wk[w].lastRead)
    /\ Return(w)
    /\ UNCHANGED <<storeVars, queueSeq, histMax, sgEnabled, topicEnabled, enq, op, chop, hw>>

\* a variant that puts the failed job back to pending without counting
\* the attempt
W_MarkFailed_bad(w) ==
    /\ wk[w].pc = "failw"
    /\ queue' = UpdateJob(queue, wk[w].job.id,
                          [queue[wk[w].job.id] EXCEPT !.status = "pending"])
    /\ Return(w)
    /\ UNCHANGED <<storeVars, queueSeq, histMax, sgEnabled, topicEnabled, enq, op, chop, hw>>

\* mark_recovery_failed(queue_id, job["retry_count"], error_text, recovery_max_retry)
W_MarkFailed(w) ==
    /\ wk[w].pc = "failw"
    /\ queue' = mark_recovery_failed(queue, wk[w].job.id, wk[w].job.retry, RecoveryMaxRetry)
    /\ Return(w)
    /\ UNCHANGED <<storeVars, queueSeq, histMax, sgEnabled, topicEnabled, enq, op, chop, hw>>

WorkerStep(w) ==
    \/ W_Resolve(w) \/ W_Select(w) \/ W_Rename(w) \/ W_Consume(w)
    \/ W_Detach(w) \/ W_Bind1(w) \/ W_Bind2(w) \/ W_Bind3(w) \/ W_Assign(w)
    \/ W_Iter(w) \/ W_Clone(w) \/ W_Hook(w) \/ W_HookWrite(w)
    \/ W_MarkDone(w) \/ W_Notify(w) \/ W_RemoveBan(w)
    \/ W_DeleteRead(w) \/ W_DeleteWrite(w)
    \/ W_Except(w) \/ W_StopRead(w) \/ W_MarkStopped(w) \/ W_MarkFailed(w)

\* =================================================================
\* MonitorService.scan_once / ListenerService.on_new_message: the target
\* channel of an active binding is found unavailable
\* =================================================================
IdleEnq == [pc |-> "idle", caller |-> "", key |-> <<0, 0>>, chan |-> NoChat,
            banHit |-> FALSE, fwd |-> <<>>, cpy |-> <<>>]

\* scan_once: a row of list_active_bindings (JOIN topics, source_groups)
\* whose source_enabled is 1, followed by the failed access check
E_Detect(caller, k) ==
    /\ enq.pc = "idle"
    /\ queueSeq < MaxJobs
    /\ k \in topics /\ k[1] \in groups
    /\ bindings[k].present /\ bindings[k].active
    /\ k[1] \in sgEnabled
    /\ caller = "monitor"
    /\ enq' = [IdleEnq EXCEPT !.pc = "ban", !.caller = caller, !.key = k,
                              !.chan = bindings[k].channel]
    /\ UNCHANGED <<storeVars, queueVars, histMax, sgEnabled, topicEnabled, wk, op, chop, hw>>

\* add_banned_channel: SELECT id FROM banned_channels WHERE ...
E_BanRead ==
    /\ enq.pc = "ban"
    /\ enq' = [enq EXCEPT !.pc = "banw",
                 !.banHit = <<enq.key[1], enq.key[2], enq.chan>> \in banned]
    /\ UNCHANGED <<storeVars, queueVars, histMax, sgEnabled, topicEnabled, wk, op, chop, hw>>

\* add_banned_channel: UPDATE the row found, else INSERT
E_BanWrite ==
    /\ enq.pc = "banw"
    /\ banned' = IF enq.banHit THEN banned
                 ELSE banned \cup {<<enq.key[1], enq.key[2], enq.chan>>}
    /\ enq' = [enq EXCEPT !.pc = "read"]
    /\ UNCHANGED <<groups, topics, channels, bindings, queueVars, histMax, sgEnabled, topicEnabled, wk, op, chop, hw>>

\* enqueue_recovery: the SELECT; an existing job's id is returned
E_EnqRead ==
    /\ enq.pc = "read"
    /\ IF ExistingJob(queue, enq.key, EnqueueStatuses) # 0
       THEN enq' = IdleEnq
       ELSE enq' = [enq EXCEPT !.pc = "insert"]
    /\ UNCHANGED <<storeVars, queueVars, histMax, sgEnabled, topicEnabled, wk, op, chop, hw>>

\* enqueue_recovery: the INSERT
E_EnqInsert ==
    /\ enq.pc = "insert"
    /\ queueSeq < MaxJobs
    /\ queue' = InsertRecovery(queue, queueSeq + 1, enq.key, enq.chan, enq.caller)
    /\ queueSeq' = queueSeq + 1
    /\ enq' = IdleEnq
    /\ UNCHANGED <<storeVars, histMax, sgEnabled, topicEnabled, wk, op, chop, hw>>

\* ------------------------------------------------------------------
\* ListenerService.on_new_message and CloneService.clone_message_no_reference
\* ------------------------------------------------------------------
\* what one call of the Bot client on the target channel does: it succeeds,
\* raises FloodWaitError, or raises a channel-unavailable error
\* (ChannelPrivateError, ChannelInvalidError, ChatAdminRequiredError, ...)
CallOutcomes == {"ok", "flood", "unavailable"}

\* the outcomes of the two attempts a send loop can make
Attempts == {<<a, b>> : a \in CallOutcomes, b \in CallOutcomes}

\* `for _ in range(2)`: success returns True, FloodWaitError sleeps and tries
\* again, any other exception is logged and returns False
SendLoop(outs) ==
    IF outs[1] = "ok" THEN TRUE
    ELSE IF outs[1] = "flood" THEN outs[2] = "ok"
    ELSE FALSE

\* _forward_ids_no_reference
forward_ids_no_reference(outs) == SendLoop(outs)

\* _copy_single_message
copy_single_message(outs) == SendLoop(outs)

\* clone_message_no_reference for a cloneable message: the forward, then the
\* copy; `raised` is the exception that leaves the call ("": none)
clone_message_no_reference(fwd, cpy) ==
    [sent |-> forward_ids_no_reference(fwd) \/ copy_single_message(cpy),
     raised |-> ""]

\* is_channel_unavailable_error
is_channel_unavailable_error(exc) == exc = "unavailable"

\* on_new_message is called with a new message of chat k[1] and topic
\* k[2]; fwd and cpy are what the Bot client's calls for this message
\* will do
L_Receive(k, fwd, cpy) ==
    /\ enq.pc = "idle"
    /\ queueSeq < MaxJobs
    /\ enq' = [IdleEnq EXCEPT !.pc = "lcheck", !.caller = "listener", !.key = k,
                              !.fwd = fwd, !.cpy = cpy]
    /\ UNCHANGED <<storeVars, queueVars, histMax, sgEnabled, topicEnabled, wk, op, chop, hw>>

\* a variant that does not look at the topic's enabled flag
ListenerAccepts_bad(k) ==
    /\ k[1] \in groups /\ k[1] \in sgEnabled
    /\ k \in topics
    /\ bindings[k].present /\ bindings[k].active

\* get_source_group_by_chat_id (enabled), get_topic (enabled), get_binding
\* (active): each miss returns
ListenerAccepts(k) ==
    /\ k[1] \in groups /\ k[1] \in sgEnabled
    /\ k \in topics /\ k \in topicEnabled
    /\ bindings[k].present /\ bindings[k].active

L_Check ==
    /\ enq.pc = "lcheck"
    /\ IF ListenerAccepts(enq.key)
       THEN enq' = [enq EXCEPT !.pc = "lclone", !.chan = bindings[enq.key].channel]
       ELSE enq' = IdleEnq
    /\ UNCHANGED <<storeVars, queueVars, histMax, sgEnabled, topicEnabled, wk, op, chop, hw>>

\* try: clone_message_no_reference(...) except Exception as exc: re-raised
\* unless is_channel_unavailable_error(exc), else add_banned_channel, ...
L_Clone ==
    /\ enq.pc = "lclone"
    /\ LET r == clone_message_no_reference(enq.fwd, enq.cpy)
       IN IF r.raised # "" /\ is_channel_unavailable_error(r.raised)
          THEN enq' = [enq EXCEPT !.pc = "ban"]
          ELSE enq' = IdleEnq
    /\ UNCHANGED <<storeVars, queueVars, histMax, sgEnabled, topicEnabled, wk, op, chop, hw>>

\* =================================================================
\* control panel: routers/queue.py and routers/bindings.py
\* =================================================================
IdleOp == [pc |-> "idle", kind |-> "", id |-> 0, restart |-> FALSE,
           st |-> "", retry |-> 0, last |-> 0, key |-> <<0, 0>>, chan |-> NoChat,
           ret |-> 0]

\* stop_recovery_task: row = get_recovery_by_id(queue_id)
\* (no row, stopping, done, failed, stopped: nothing is written)
P_StopRead(id) ==
    /\ op.pc = "idle"
    /\ Present(queue, id)
    /\ queue[id].status \in {"pending", "running"}
    /\ op' = [IdleOp EXCEPT !.pc = "stopw", !.id = id, !.st = queue[id].status]
    /\ UNCHANGED <<storeVars, queueVars, histMax, sgEnabled, topicEnabled, wk, enq, chop, hw>>

\* stop_recovery_task: the UPDATE chosen by the status read
StopTarget(st) == IF st = "pending" THEN "stopped" ELSE "stopping"

P_StopWrite ==
    /\ op.pc = "stopw"
    /\ LET f == [queue[op.id] EXCEPT !.status = StopTarget(op.st)]
       IN queue' = UpdateJob(queue, op.id, f)
    /\ op' = IdleOp
    /\ UNCHANGED <<storeVars, queueSeq, histMax, sgEnabled, topicEnabled, wk, enq, chop, hw>>

\* requeue_recovery_task: the read; a done job is refused
P_RequeueRead(id, restart) ==
    /\ op.pc = "idle"
    /\ Present(queue, id)
    /\ queue[id].status # "done"
    /\ op' = [IdleOp EXCEPT !.pc = "requeuew", !.id = id, !.restart = restart,
                            !.retry = queue[id].retry, !.last = queue[id].last]
    /\ hw' = IF restart THEN [hw EXCEPT ![id] = 0] ELSE hw
    /\ UNCHANGED <<storeVars, queueVars, histMax, sgEnabled, topicEnabled, wk, enq, chop>>

\* requeue_recovery_task: UPDATE ... SET status='pending', retry_count=?, last_cloned_message_id=?
requeue_write(q, id, restart, retry, last) ==
    LET r == q[id]
        f == [r EXCEPT !.status = "pending",
                          !.retry = IF restart THEN 0 ELSE retry,
                          !.last = IF restart THEN 0 ELSE last]
    IN UpdateJob(q, id, f)

P_RequeueWrite ==
    /\ op.pc = "requeuew"
    /\ queue' = requeue_write(queue, op.id, op.restart, op.retry, op.last)
    /\ hw' = IF op.restart THEN [hw EXCEPT ![op.id] = 0] ELSE hw
    /\ op' = IdleOp
    /\ UNCHANGED <<storeVars, queueSeq, histMax, sgEnabled, topicEnabled, wk, enq, chop>>

\* delete_recovery_task (DELETE /recovery/{id}): the read
P_DeleteRead(id) ==
    /\ op.pc = "idle"
    /\ Present(queue, id)
    /\ queue[id].status \notin {"running", "stopping"}
    /\ op' = [IdleOp EXCEPT !.pc = "deletew", !.id = id]
    /\ UNCHANGED <<storeVars, queueVars, histMax, sgEnabled, topicEnabled, wk, enq, chop, hw>>

P_DeleteWrite ==
    /\ op.pc = "deletew"
    /\ queue' = [queue EXCEPT ![op.id] = NoRow]
    /\ op' = IdleOp
    /\ UNCHANGED <<storeVars, queueSeq, histMax, sgEnabled, topicEnabled, wk, enq, chop, hw>>

\* clear_recovery_queue(include_running)
P_Clear(include_running) ==
    /\ op.pc = "idle"
    /\ clear_recovery_queue(queue, include_running) # queue
    /\ queue' = clear_recovery_queue(queue, include_running)
    /\ UNCHANGED <<storeVars, queueSeq, histMax, sgEnabled, topicEnabled, wk, enq, op, chop, hw>>

\* POST /recovery/reset-running: the UPDATE and its rowcount, which the
\* response carries as reset_count
P_ResetRunning ==
    /\ op.pc = "idle"
    /\ queue' = reset_running_recovery_tasks(queue)
    /\ op' = [IdleOp EXCEPT !.kind = "reset", !.ret = rowcount_running(queue)]
    /\ UNCHANGED <<storeVars, queueSeq, histMax, sgEnabled, topicEnabled, wk, enq, chop, hw>>

\* bind_topic / start_manual_recovery: get_topic, resolve_chat and
\* check_channel_access pass for channel c
P_BindStart(kind, k, c) ==
    /\ op.pc = "idle"
    /\ kind \in {"bind", "manual"}
    /\ kind = "manual" => queueSeq < MaxJobs
    /\ k \in topics
    /\ op' = [IdleOp EXCEPT !.pc = "bchan", !.kind = kind, !.key = k, !.chan = c]
    /\ UNCHANGED <<storeVars, queueVars, histMax, sgEnabled, topicEnabled, wk, enq, chop, hw>>

\* upsert_channel(chat_id, title, is_standby=False, in_use=True)
P_BindChannel ==
    /\ op.pc = "bchan"
    /\ channels' = upsert_channel(channels, op.chan, FALSE, TRUE)
    /\ op' = [op EXCEPT !.pc = "bind1"]
    /\ UNCHANGED <<groups, topics, bindings, banned, queueVars, histMax, sgEnabled, topicEnabled, wk, enq, chop, hw>>

P_Bind1 ==
    /\ op.pc = "bind1"
    /\ bindings' = upsert_binding_row(bindings, op.key, op.chan)
    /\ op' = [op EXCEPT !.pc = "bind2"]
    /\ UNCHANGED <<groups, topics, channels, banned, queueVars, histMax, sgEnabled, topicEnabled, wk, enq, chop, hw>>

P_Bind2 ==
    /\ op.pc = "bind2"
    /\ channels' = upsert_binding_channel(channels, op.chan)
    /\ op' = [op EXCEPT !.pc = "bind3"]
    /\ UNCHANGED <<groups, topics, bindings, banned, queueVars, histMax, sgEnabled, topicEnabled, wk, enq, chop, hw>>

\* upsert_binding: row = get_binding(...); None raises.  Then, for a manual
\* start, enqueue_manual_recovery
P_Bind3 ==
    /\ op.pc = "bind3"
    /\ IF bindings[op.key].present /\ op.kind = "manual"
       THEN op' = [op EXCEPT !.pc = "menqr"]
       ELSE op' = IdleOp
    /\ UNCHANGED <<storeVars, queueVars, histMax, sgEnabled, topicEnabled, wk, enq, chop, hw>>

\* enqueue_manual_recovery: the SELECT
P_ManualEnqRead ==
    /\ op.pc = "menqr"
    /\ IF ExistingJob(queue, op.key, ManualStatuses) # 0
       THEN op' = IdleOp
       ELSE op' = [op EXCEPT !.pc = "menqi"]
    /\ UNCHANGED <<storeVars, queueVars, histMax, sgEnabled, topicEnabled, wk, enq, chop, hw>>

\* enqueue_manual_recovery: the INSERT
P_ManualEnqInsert ==
    /\ op.pc = "menqi"
    /\ queueSeq < MaxJobs
    /\ queue' = InsertManual(queue, queueSeq + 1, op.key, op.chan)
    /\ queueSeq' = queueSeq + 1
    /\ op' = IdleOp
    /\ UNCHANGED <<storeVars, histMax, sgEnabled, topicEnabled, wk, enq, chop, hw>>

\* =================================================================
\* channel pool and binding commands: services/channel_service.py,
\* services/bot_channel_sync_service.py, routers/bindings.py,
\* services/topic_service.py
\* =================================================================
IdleChop == [pc |-> "idle", kind |-> "", todo |-> <<>>, chan |-> NoChat,
             admin |-> FALSE, bound |-> FALSE]

OtherVars == <<queueVars, histMax, sgEnabled, topicEnabled, wk, enq, op, hw>>

\* refresh_standby_channels: standby_channels = list_standby_channels()
C_RefreshStart ==
    /\ chop.pc = "idle"
    /\ list_standby_channels(channels) # <<>>
    /\ chop' = [IdleChop EXCEPT !.pc = "read", !.kind = "refresh",
                                !.todo = list_standby_channels(channels)]
    /\ UNCHANGED <<storeVars, OtherVars>>

\* add_standby_channels_batch(refs_text): every ref resolves to a channel
C_BatchStart(refs) ==
    /\ chop.pc = "idle"
    /\ chop' = [IdleChop EXCEPT !.pc = "read", !.kind = "batch", !.todo = refs]
    /\ UNCHANGED <<storeVars, OtherVars>>

\* sync_once: the my_chat_member updates fetched, each about a channel
C_SyncStart(refs) ==
    /\ chop.pc = "idle"
    /\ chop' = [IdleChop EXCEPT !.pc = "read", !.kind = "sync", !.todo = refs]
    /\ UNCHANGED <<storeVars, OtherVars>>

\* the loop's next channel is done
NextChannel(r) ==
    IF Len(r.todo) <= 1 THEN IdleChop
    ELSE [r EXCEPT !.pc = "read", !.todo = Tail(r.todo), !.chan = NoChat]

\* is_admin (the upstream's answer, or the update's new status) and
\* active_bindings = get_binding_by_channel(chat_id); a batch ref whose
\* channel the bot does not administer fails and is skipped
C_Read ==
    /\ chop.pc = "read"
    /\ \E admin \in BOOLEAN :
         LET r == [chop EXCEPT !.chan = Head(chop.todo), !.admin = admin,
                        !.bound = get_binding_by_channel(bindings, Head(chop.todo)) # {}]
         IN IF chop.kind = "batch" /\ ~admin
            THEN chop' = NextChannel(r)
            ELSE chop' = [r EXCEPT !.pc = "write"]
    /\ UNCHANGED <<storeVars, OtherVars>>

\* the channel write of refresh_standby_channels, add_standby_channels_batch
\* and sync_once: delete_channel, or upsert_channel(is_standby, in_use)
pool_write_bad(chs, c, admin, bound) ==
    IF ~admin /\ ~bound THEN delete_channel(chs, c)
    ELSE upsert_channel(chs, c, admin, bound)

pool_write(chs, c, admin, bound) ==
    IF ~admin /\ ~bound THEN delete_channel(chs, c)
    ELSE upsert_channel(chs, c, admin /\ ~bound, bound)

C_Write ==
    /\ chop.pc = "write"
    /\ channels' = pool_write(channels, chop.chan, chop.admin, chop.bound)
    /\ chop' = NextChannel(chop)
    /\ UNCHANGED <<groups, topics, bindings, banned, OtherVars>>

\* remove_standby_channel: channel_row = get_channel(chat_id)
C_RemoveRead(c) ==
    /\ chop.pc = "idle"
    /\ HasChannel(channels, c)
    /\ chop' = [IdleChop EXCEPT !.pc = "rmcheck", !.kind = "remove", !.chan = c,
                  !.admin = get_channel(channels, c).is_standby,
                  !.bound = get_channel(channels, c).in_use]
    /\ UNCHANGED <<storeVars, OtherVars>>

\* remove_standby_channel: active_bindings, then the in_use and is_standby tests
C_RemoveCheck ==
    /\ chop.pc = "rmcheck"
    /\ IF get_binding_by_channel(bindings, chop.chan) # {} \/ chop.bound \/ ~chop.admin
       THEN chop' = IdleChop
       ELSE chop' = [chop EXCEPT !.pc = "rmwrite"]
    /\ UNCHANGED <<storeVars, OtherVars>>

C_RemoveWrite ==
    /\ chop.pc = "rmwrite"
    /\ channels' = delete_channel(channels, chop.chan)
    /\ chop' = IdleChop
    /\ UNCHANGED <<groups, topics, bindings, banned, OtherVars>>

\* ChannelService.clear_standby_channels: count rows with in_use = 0
C_ClearRead ==
    /\ chop.pc = "idle"
    /\ \E i \in 1..Len(channels) : ~channels[i].in_use
    /\ chop' = [IdleChop EXCEPT !.pc = "clearw", !.kind = "clear"]
    /\ UNCHANGED <<storeVars, OtherVars>>

C_ClearWrite ==
    /\ chop.pc = "clearw"
    /\ channels' = clear_standby_channels(channels)
    /\ chop' = IdleChop
    /\ UNCHANGED <<groups, topics, bindings, banned, OtherVars>>

\* POST /bindings/{source_group_id}/{topic_id}/active
C_SetBindingActive(k, a) ==
    /\ bindings[k].present
    /\ bindings[k].active # a
    /\ bindings' = set_binding_active(bindings, k, a)
    /\ UNCHANGED <<groups, topics, channels, banned, OtherVars, chop>>

\* set_source_group_enabled: UPDATE source_groups SET enabled=? WHERE id=?
set_source_group_enabled(g, enabled) ==
    /\ sgEnabled' = IF g \notin groups THEN sgEnabled
                    ELSE IF enabled THEN sgEnabled \cup {g} ELSE sgEnabled \ {g}
    /\ UNCHANGED <<storeVars, queueVars, histMax, topicEnabled, wk, enq, op, chop, hw>>

\* set_topic_enabled: UPDATE topics SET enabled=? WHERE source_group_id=? AND topic_id=?
set_topic_enabled(k, enabled) ==
    /\ topicEnabled' = IF k \notin topics THEN topicEnabled
                       ELSE IF enabled THEN topicEnabled \cup {k}
                       ELSE topicEnabled \ {k}
    /\ UNCHANGED <<storeVars, queueVars, histMax, sgEnabled, wk, enq, op, chop, hw>>

\* delete_source_group: the channels to release
ReleasedChannels(bs, g) ==
    {c \in Chats : /\ \E k \in AllKeys : k[1] = g /\ bs[k].present /\ bs[k].channel = c
                   /\ ~\E k \in AllKeys : /\ k[1] # g /\ bs[k].present
                                          /\ bs[k].active /\ bs[k].channel = c}

\* a variant without the check for running or stopping jobs
delete_source_group_bad(g) ==
    /\ g \in groups
    /\ queue' = [i \in JobIds |-> IF queue[i].sg = g THEN NoRow ELSE queue[i]]
    /\ banned' = {b \in banned : b[1] # g}
    /\ bindings' = [k \in AllKeys |-> IF k[1] = g THEN NoBinding ELSE bindings[k]]
    /\ topics' = {k \in topics : k[1] # g}
    /\ groups' = groups \ {g}
    /\ channels' = [i \in 1..Len(channels) |->
                      IF channels[i].chat_id \in ReleasedChannels(bindings, g)
                      THEN [channels[i] EXCEPT !.in_use = FALSE] ELSE channels[i]]
    /\ sgEnabled' = sgEnabled \ {g}
    /\ topicEnabled' = {k \in topicEnabled : k[1] # g}
    /\ UNCHANGED <<queueSeq, histMax, wk, enq, op, chop, hw>>

\* delete_source_group, one transaction under _write_lock
delete_source_group(g) ==
    /\ g \in groups
    /\ ~\E i \in JobIds : queue[i].sg = g /\ queue[i].status \in {"running", "stopping"}
    /\ queue' = [i \in JobIds |-> IF queue[i].sg = g THEN NoRow ELSE queue[i]]
    /\ banned' = {b \in banned : b[1] # g}
    /\ bindings' = [k \in AllKeys |-> IF k[1] = g THEN NoBinding ELSE bindings[k]]
    /\ topics' = {k \in topics : k[1] # g}
    /\ groups' = groups \ {g}
    /\ channels' = [i \in 1..Len(channels) |->
                      IF channels[i].chat_id \in ReleasedChannels(bindings, g)
                      THEN [channels[i] EXCEPT !.in_use = FALSE] ELSE channels[i]]
    /\ sgEnabled' = sgEnabled \ {g}
    /\ topicEnabled' = {k \in topicEnabled : k[1] # g}
    /\ UNCHANGED <<queueSeq, histMax, wk, enq, op, chop, hw>>

\* Database.reset_available_standby_channels
C_ResetAvailable ==
    /\ reset_available_standby_channels(channels) # channels
    /\ channels' = reset_available_standby_channels(channels)
    /\ UNCHANGED <<groups, topics, bindings, banned, OtherVars, chop>>

\* =================================================================
\* main.py lifespan: the process stops (shutdown cancels the loops at their
\* current await, a crash ends them anywhere) and starts again.  Startup
\* runs db.init and creates the services and the loops; it writes no row.
\* =================================================================
lifespan ==
    /\ wk' = [w \in Workers |-> IdleW]
    /\ enq' = IdleEnq
    /\ op' = IdleOp
    /\ chop' = IdleChop
    /\ UNCHANGED <<storeVars, queueVars, histMax, sgEnabled, topicEnabled, hw>>

\* =================================================================
\* specifications
\* =================================================================
Chan(c, is_standby, in_use) ==
    [chat_id |-> c, is_standby |-> is_standby, in_use |-> in_use]

Bound(c) == [present |-> TRUE, channel |-> c, active |-> TRUE]

InitProcs ==
    /\ wk = [w \in Workers |-> IdleW]
    /\ enq = IdleEnq
    /\ op = IdleOp
    /\ chop = IdleChop
    /\ queue = [i \in JobIds |-> NoRow]
    /\ queueSeq = 0
    /\ hw = [i \in JobIds |-> 0]
    /\ banned = {}

OneTopic ==
    /\ groups = {1}
    /\ topics = {<<1, 1>>}
    /\ channels = <<Chan("c1", FALSE, TRUE), Chan("c2", TRUE, FALSE)>>
    /\ bindings = [k \in AllKeys |-> IF k = <<1, 1>> THEN Bound("c1") ELSE NoBinding]
    /\ sgEnabled = groups
    /\ topicEnabled = topics

TwoTopics ==
    /\ groups = {1}
    /\ topics = {<<1, 1>>, <<1, 2>>}
    /\ channels = <<Chan("c1", FALSE, TRUE), Chan("c2", FALSE, TRUE),
                    Chan("c3", TRUE, FALSE)>>
    /\ bindings = [k \in AllKeys |->
                     IF k = <<1, 1>> THEN Bound("c1")
                     ELSE IF k = <<1, 2>> THEN Bound("c2") ELSE NoBinding]
    /\ sgEnabled = groups
    /\ topicEnabled = topics

LoopWorker ==
    \/ claim_next_recovery("loop")
    \/ WorkerStep("loop")

Monitor ==
    \/ \E k \in AllKeys : E_Detect("monitor", k)
    \/ E_BanRead \/ E_BanWrite \/ E_EnqRead \/ E_EnqInsert

StopCommand ==
    \/ \E id \in JobIds : P_StopRead(id)
    \/ P_StopWrite

\* Spec: the recovery loop, the monitor and the panel's stop command over
\* one bound topic with one standby channel in the pool.
Init ==
    /\ InitProcs
    /\ OneTopic
    /\ histMax = QueueHist

Next == LoopWorker \/ Monitor \/ StopCommand

Spec == Init /\ [][Next]_vars

\* SpecManual: Spec with the panel's manual start of a clone into the
\* channel first bound.
ManualStart ==
    \/ \E k \in AllKeys : P_BindStart("manual", k, "c1")
    \/ P_BindChannel \/ P_Bind1 \/ P_Bind2 \/ P_Bind3
    \/ P_ManualEnqRead \/ P_ManualEnqInsert

NextManual == LoopWorker \/ Monitor \/ ManualStart \/ StopCommand

SpecManual == Init /\ [][NextManual]_vars

\* SpecTwo: the recovery loop and a panel run-once request side by side,
\* the monitor watching two bound topics, and the panel's clear-all command.
PanelWorker ==
    \/ claim_next_recovery("panel")
    \/ \E id \in JobIds : claim_recovery_by_id("panel", id)
    \/ WorkerStep("panel")

InitTwo ==
    /\ InitProcs
    /\ TwoTopics
    /\ histMax = QueueHist

NextTwo == LoopWorker \/ PanelWorker \/ Monitor \/ P_Clear(TRUE)

SpecTwo == InitTwo /\ [][NextTwo]_vars

\* SpecClone: one recovery at a time over a longer source history.
InitClone ==
    /\ InitProcs
    /\ OneTopic
    /\ histMax = CloneHist

NextClone == LoopWorker \/ Monitor \/ StopCommand

SpecClone == InitClone /\ [][NextClone]_vars

\* SpecChan: the channel pool commands, the binding commands and bind_topic.
BindTopic ==
    \/ \E k \in AllKeys, c \in Chats : P_BindStart("bind", k, c)
    \/ P_BindChannel \/ P_Bind1 \/ P_Bind2 \/ P_Bind3

Refs == {<<c>> : c \in Chats}

PoolCommands ==
    \/ C_RefreshStart
    \/ \E refs \in Refs : C_BatchStart(refs)
    \/ \E refs \in Refs : C_SyncStart(refs)
    \/ C_Read \/ C_Write
    \/ \E c \in Chats : C_RemoveRead(c)
    \/ C_RemoveCheck \/ C_RemoveWrite
    \/ C_ClearRead \/ C_ClearWrite
    \/ C_ResetAvailable

BindingCommands ==
    \/ \E k \in AllKeys, a \in BOOLEAN : C_SetBindingActive(k, a)
    \/ \E g \in GroupIds : delete_source_group(g)

NextChan == PoolCommands \/ BindingCommands \/ BindTopic

SpecChan == Init /\ [][NextChan]_vars

\* SpecRequeue: the recovery loop and the monitor with the panel's continue
\* and restart commands and its clear-all command.
RequeueCommand ==
    \/ \E id \in JobIds, restart \in BOOLEAN : P_RequeueRead(id, restart)
    \/ P_RequeueWrite

NextRequeue == LoopWorker \/ Monitor \/ RequeueCommand \/ P_Clear(TRUE)

SpecRequeue == Init /\ [][NextRequeue]_vars

\* SpecById: the panel's run-by-id request and its stop command, with the
\* monitor filling the queue and the process restarting.
PanelById ==
    \/ \E id \in JobIds : claim_recovery_by_id("panel", id)
    \/ WorkerStep("panel")

NextById == PanelById \/ Monitor \/ StopCommand \/ lifespan

SpecById == Init /\ [][NextById]_vars

\* SpecRestart: Spec with the process restarting.
NextRestart == LoopWorker \/ Monitor \/ StopCommand \/ lifespan

SpecRestart == Init /\ [][NextRestart]_vars

\* SpecDelete: two source groups whose topics were bound to the same
\* channel; the recovery loop, the monitor, the stop command and the
\* deletion of a source group.
TwoGroups ==
    /\ groups = {1, 2}
    /\ topics = {<<1, 1>>, <<2, 1>>}
    /\ channels = <<Chan("c1", FALSE, TRUE), Chan("c2", TRUE, FALSE)>>
    /\ bindings = [k \in AllKeys |->
                     IF k \in {<<1, 1>>, <<2, 1>>} THEN Bound("c1") ELSE NoBinding]
    /\ sgEnabled = groups
    /\ topicEnabled = topics

InitDelete ==
    /\ InitProcs
    /\ TwoGroups
    /\ histMax = QueueHist

DeleteGroup == \E g \in GroupIds : delete_source_group(g)

NextDelete == LoopWorker \/ Monitor \/ StopCommand \/ DeleteGroup

SpecDelete == InitDelete /\ [][NextDelete]_vars

\* SpecEnable: Spec with the panel switching the source group and its topic
\* off and on.
EnableCommands ==
    \/ \E g \in GroupIds, e \in BOOLEAN : set_source_group_enabled(g, e)
    \/ \E k \in AllKeys, e \in BOOLEAN : set_topic_enabled(k, e)

NextEnable == LoopWorker \/ Monitor \/ StopCommand \/ EnableCommands

SpecEnable == Init /\ [][NextEnable]_vars

\* SpecAuto: the recovery loop and the monitor on their own, no panel
\* command.
AutoWorker ==
    \/ claim_next_recovery("loop")
    \/ W_Resolve("loop") \/ W_Select("loop") \/ W_Rename("loop")
    \/ W_Consume("loop") \/ W_Detach("loop")
    \/ W_Bind1("loop") \/ W_Bind2("loop") \/ W_Bind3("loop") \/ W_Assign("loop")
    \/ W_Iter("loop") \/ W_Clone("loop") \/ W_Hook("loop") \/ W_HookWrite("loop")
    \/ W_MarkDone("loop") \/ W_Notify("loop") \/ W_RemoveBan("loop")
    \/ W_DeleteRead("loop") \/ W_DeleteWrite("loop")
    \/ W_Except("loop") \/ W_MarkFailed("loop")

NextAuto == AutoWorker \/ Monitor

SpecAuto == Init /\ [][NextAuto]_vars

\* SpecListen: SpecAuto with the live listener receiving new messages of
\* the bound topic.
Listener ==
    \/ \E k \in AllKeys, fwd \in Attempts, cpy \in Attempts : L_Receive(k, fwd, cpy)
    \/ L_Check
    \/ L_Clone

NextListen == AutoWorker \/ Monitor \/ Listener

SpecListen == Init /\ [][NextListen]_vars

\* SpecRace: the recovery loop, the panel's stop command and its run-by-id
\* request made for a job that shows as stopping, over one detected job.
RunStopping ==
    \/ \E id \in JobIds :
          queue[id].status = "stopping" /\ claim_recovery_by_id("panel", id)
    \/ WorkerStep("panel")

\* the state the monitor leaves behind after one detection
InitRace ==
    /\ wk = [w \in Workers |-> IdleW]
    /\ enq = IdleEnq
    /\ op = IdleOp
    /\ chop = IdleChop
    /\ queue = InsertRecovery([i \in JobIds |-> NoRow], 1, <<1, 1>>, "c1", "monitor")
    /\ queueSeq = 1
    /\ hw = [i \in JobIds |-> 0]
    /\ banned = {<<1, 1, "c1">>}
    /\ OneTopic
    /\ histMax = QueueHist

NextRace == LoopWorker \/ StopCommand \/ RunStopping

SpecRace == InitRace /\ [][NextRace]_vars

\* ------------------------------------------------- normalize_chat_ref
\* A chat reference is a string, written here as a sequence of lexical
\* units: the host in both cases, the separators the function looks for,
\* a digit, a letter and a blank.
Tokens == {"t.me", "T.ME", "/", "?", "-", "@", "c", "a", "5", " "}

ChatRefs == UNION {[1..n -> Tokens] : n \in 0..MaxRefLen}

RECURSIVE LStrip(_, _)
LStrip(s, ch) ==
    IF s # <<>> /\ Head(s) = ch THEN LStrip(Tail(s), ch) ELSE s

RECURSIVE RStrip(_, _)
RStrip(s, ch) ==
    IF s # <<>> /\ s[Len(s)] = ch THEN RStrip(SubSeq(s, 1, Len(s) - 1), ch) ELSE s

\* str.strip(): both ends
StripBoth(s, ch) == RStrip(LStrip(s, ch), ch)

\* str.lower()
Lower(s) == [i \in 1..Len(s) |-> IF s[i] = "T.ME" THEN "t.me" ELSE s[i]]

\* positions where the substring "t.me/" starts
LinkAt(s) == {i \in 1..(Len(s) - 1) : s[i] = "t.me" /\ s[i + 1] = "/"}

\* "t.me/" in s
HasLink(s) == LinkAt(s) # {}

\* s.split("t.me/", 1)[1]
AfterLink(s) ==
    LET i == CHOOSE j \in LinkAt(s) : \A k \in LinkAt(s) : j <= k
    IN SubSeq(s, i + 2, Len(s))

\* s.split(ch, 1)[0]
Before(s, ch) ==
    IF \E i \in 1..Len(s) : s[i] = ch
    THEN LET i == CHOOSE j \in 1..Len(s) :
                      s[j] = ch /\ \A k \in 1..(j - 1) : s[k] # ch
         IN SubSeq(s, 1, i - 1)
    ELSE s

\* str.isdigit()
IsDigit(s) == s # <<>> /\ \A i \in 1..Len(s) : s[i] = "5"

RECURSIVE Pow10(_)
Pow10(n) == IF n = 0 THEN 1 ELSE 10 * Pow10(n - 1)

\* int() of a string of digits
RECURSIVE DigitsValue(_)
DigitsValue(s) ==
    IF s = <<>> THEN 0 ELSE 10 * DigitsValue(SubSeq(s, 1, Len(s) - 1)) + 5

IntV(n) == [kind |-> "int", num |-> n, text |-> <<>>]
StrV(s) == [kind |-> "str", num |-> 0, text |-> s]
Raises(e) == [kind |-> "raise", num |-> 0, text |-> <<e>>]

\* the tail of normalize_chat_ref: `if text.lstrip("-").isdigit(): return
\* int(text)`, then the "@" prefix. int() accepts one sign only.
NameOrNumber(text) ==
    LET digits == LStrip(text, "-") IN
    IF IsDigit(digits)
    THEN IF Len(text) - Len(digits) = 0 THEN IntV(DigitsValue(digits))
         ELSE IF Len(text) - Len(digits) = 1 THEN IntV(0 - DigitsValue(digits))
         ELSE Raises("ValueError")
    ELSE IF text # <<>> /\ Head(text) = "@" THEN StrV(text)
    ELSE StrV(<<"@">> \o text)

normalize_chat_ref(chat_ref) ==
    LET text == StripBoth(chat_ref, " ") IN
    IF text = <<>> THEN Raises("ValueError")
    ELSE IF HasLink(Lower(text))
    THEN IF ~HasLink(text) THEN Raises("IndexError")
         ELSE LET link_path == Before(StripBoth(AfterLink(text), "/"), "?")
                  part1 == Before(SubSeq(link_path, 3, Len(link_path)), "/")
              IN IF /\ Len(link_path) >= 2
                    /\ link_path[1] = "c" /\ link_path[2] = "/"
                    /\ IsDigit(part1)
                 THEN IntV(0 - (100 * Pow10(Len(part1)) + DigitsValue(part1)))
                 ELSE NameOrNumber(Before(link_path, "/"))
    ELSE NameOrNumber(text)

\* normalize_chat_ref applied to a value it returned (an int is returned
\* as it is)
Renormalize(v) == IF v.kind = "str" THEN normalize_chat_ref(v.text) ELSE v

\* resolve_chat: normalized = self.normalize_chat_ref(chat_ref)
ResolveChat ==
    /\ chop.pc = "resolve"
    /\ chop' = [chop EXCEPT !.pc = "normalized",
                            !.out = normalize_chat_ref(chop.chat_ref)]
    /\ UNCHANGED <<storeVars, queueVars, histMax, sgEnabled, topicEnabled, wk, enq, op, hw>>

\* the value returned is passed to resolve_chat once more
ResolveAgain ==
    /\ chop.pc = "normalized"
    /\ chop.out.kind # "raise"
    /\ chop' = [chop EXCEPT !.pc = "again", !.out2 = Renormalize(chop.out)]
    /\ UNCHANGED <<storeVars, queueVars, histMax, sgEnabled, topicEnabled, wk, enq, op, hw>>

\* SpecNormalize: resolve_chat called with every chat reference of up to
\* MaxRefLen units.
InitNormalize ==
    /\ wk = [w \in Workers |-> IdleW]
    /\ enq = IdleEnq
    /\ op = IdleOp
    /\ \E s \in ChatRefs :
         chop = [pc |-> "resolve", chat_ref |-> s, out |-> Raises(""), out2 |-> Raises("")]
    /\ queue = [i \in JobIds |-> NoRow]
    /\ queueSeq = 0
    /\ hw = [i \in JobIds |-> 0]
    /\ banned = {}
    /\ OneTopic
    /\ histMax = QueueHist

NextNormalize == ResolveChat \/ ResolveAgain

SpecNormalize == InitNormalize /\ [][NextNormalize]_vars

\* SpecPool: the recovery loop over one detected job with two standby
\* channels in the pool, the process restarting and the panel's
\* reset-running command.
InitPool ==
    /\ wk = [w \in Workers |-> IdleW]
    /\ enq = IdleEnq
    /\ op = IdleOp
    /\ chop = IdleChop
    /\ queue = InsertRecovery([i \in JobIds |-> NoRow], 1, <<1, 1>>, "c1", "monitor")
    /\ queueSeq = 1
    /\ hw = [i \in JobIds |-> 0]
    /\ banned = {<<1, 1, "c1">>}
    /\ groups = {1}
    /\ topics = {<<1, 1>>}
    /\ channels = <<Chan("c1", FALSE, TRUE), Chan("c2", TRUE, FALSE),
                    Chan("c3", TRUE, FALSE)>>
    /\ bindings = [k \in AllKeys |-> IF k = <<1, 1>> THEN Bound("c1") ELSE NoBinding]
    /\ sgEnabled = groups
    /\ topicEnabled = topics
    /\ histMax = QueueHist

NextPool == AutoWorker \/ lifespan \/ P_ResetRunning

SpecPool == InitPool /\ [][NextPool]_vars

\* SpecRefresh: the recovery loop over one detected job while the panel
\* refreshes the standby pool.
Refresh == C_RefreshStart \/ C_Read \/ C_Write

NextRefresh == AutoWorker \/ Refresh

SpecRefresh == InitRace /\ [][NextRefresh]_vars

\* SpecStopFair: SpecRestart under fair scheduling: the recovery loop takes
\* its next step whenever it has one, and a stop command that has read the
\* row goes on to its write.
SpecStopFair ==
    /\ Init /\ [][NextRestart]_vars
    /\ WF_vars(LoopWorker)
    /\ WF_vars(P_StopWrite)

\* SpecAutoFair: the recovery loop and the monitor over two bound topics
\* and one standby channel, under fair scheduling of recovery_loop with
\* both clients authorised: run_once is called again and again and each
\* of its awaits returns.
SpecAutoFair ==
    /\ InitTwo /\ [][NextAuto]_vars
    /\ WF_vars(AutoWorker)

\* SpecReset: the recovery loop, the monitor and the stop command over two
\* bound topics, with restarts of the process and the panel's reset of
\* the running jobs.
NextReset == LoopWorker \/ Monitor \/ StopCommand \/ lifespan \/ P_ResetRunning

SpecReset == InitTwo /\ [][NextReset]_vars

\* SpecListenOff: the live listener while the panel switches the source
\* group and its topic off and on.
NextListenOff == Listener \/ EnableCommands

SpecListenOff == Init /\ [][NextListenOff]_vars

\* =================================================================
\* properties
\* =================================================================
JobsOf(q, k, statuses) ==
    {i \in JobIds : q[i].status \in statuses /\ q[i].sg = k[1] /\ q[i].topic = k[2]}

\* C1: for every (source_group_id, topic_id) at most one recovery job is
\* pending, running or stopping.
C1_OneNonTerminalJob ==
    \A k \in AllKeys : Cardinality(JobsOf(queue, k, NonTerminal)) <= 1

\* an invocation of run_once between its claim and its final status write
Executing(w) == wk[w].pc \notin {"idle", "rmban", "delrd", "delwr"}

\* C2: at most one invocation of run_once is between a successful claim
\* and its final status write.
C2_OneJobExecuting ==
    Cardinality({w \in Workers : Executing(w)}) <= 1

\* an invocation that took its channel from the standby pool and has
\* consumed and bound it
BoundFromPool(w) ==
    /\ wk[w].pc \in {"bind3", "assign"}
    /\ wk[w].job.new = NoChat

\* C3: two recoveries that go through the consume-standby path never
\* select, consume and bind the same channel.
C3_DistinctStandbyChannels ==
    \A v \in Workers, w \in Workers :
        (v # w /\ BoundFromPool(v) /\ BoundFromPool(w)) => wk[v].chan # wk[w].chan

\* C4: no channel row has is_standby = 1 and in_use = 1 at the same time.
C4_NoStandbyInUse ==
    \A i \in 1..Len(channels) : ~(channels[i].is_standby /\ channels[i].in_use)

\* the pool holds the channel first bound, as standby, and the channel the
\* topic was bound to afterwards, as in use
C4_Witness ==
    /\ HasChannel(channels, "c1") /\ get_channel(channels, "c1").is_standby
    /\ HasChannel(channels, "c3") /\ get_channel(channels, "c3").in_use
    /\ bindings[<<1, 1>>].channel = "c3"

\* no bind_topic and no pool command is between two of its statements
Quiescent == op.pc = "idle" /\ chop.pc = "idle"

\* C5: every binding with active = 1 has a channel row with the same
\* chat_id and in_use = 1, is_standby = 0 (looked at when no command is
\* in flight, so that upsert_binding is seen with both statements done).
C5_ActiveBindingChannelInUse ==
    Quiescent =>
        \A k \in AllKeys :
            (bindings[k].present /\ bindings[k].active) =>
                /\ HasChannel(channels, bindings[k].channel)
                /\ get_channel(channels, bindings[k].channel).in_use
                /\ ~get_channel(channels, bindings[k].channel).is_standby

\* C6: once update_recovery_progress(id, k) has committed, the job's
\* last_cloned_message_id stays >= k until the job is restarted.
C6_CheckpointNeverLowered ==
    \A id \in JobIds : Present(queue, id) => queue[id].last >= hw[id]

\* C7: the values one call of clone_topic_history passes to the progress
\* hook are non-decreasing.
C7_HookValuesNonDecreasing ==
    \A w \in Workers : \A i \in 1..(Len(wk[w].hookLog) - 1) :
        wk[w].hookLog[i] <= wk[w].hookLog[i + 1]

\* C8: a call of clone_topic_history that returns normally returns a
\* last_cloned_message_id >= max(effective start, highest id yielded).
C8_ReturnCoversYielded ==
    \A w \in Workers :
        wk[w].pc = "markdone" =>
            wk[w].ret >= Max(EffectiveStart(wk[w].job.last, wk[w].job.topic),
                             wk[w].yielded)

\* C9: enqueue_recovery is idempotent: with a pending or running job for
\* the key it returns that job's id and leaves the queue as it is; two calls
\* in a row return the same id, the second inserts nothing, and from a key
\* without a pending or running job they leave exactly one such job.
C9_EnqueueIdempotent ==
    \A k \in AllKeys, c \in Chats, d \in Chats :
        queueSeq < MaxJobs =>
            LET e == ExistingJob(queue, k, {"pending", "running"})
                first == enqueue_recovery(queue, queueSeq, k, c, "monitor")
                second == enqueue_recovery(first.queue, first.seq, k, d, "listener")
            IN /\ e # 0 => (first.id = e /\ first.queue = queue /\ first.seq = queueSeq)
               /\ second.id = first.id
               /\ second.queue = first.queue
               /\ second.seq = first.seq
               /\ e = 0 =>
                    /\ second.seq = queueSeq + 1
                    /\ JobsOf(second.queue, k, {"pending", "running"}) = {first.id}

\* the monitor is about to run enqueue_recovery's SELECT for a topic whose
\* job is running
C9_Witness ==
    /\ enq.pc = "read"
    /\ queueSeq < MaxJobs
    /\ JobsOf(queue, enq.key, {"running"}) # {}

\* C10: enqueue_manual_recovery returns the id of the key's pending, running
\* or stopping job and inserts nothing; without such a job it inserts one
\* pending job with retry_count 0, checkpoint 0 and new_channel_chat_id set
\* to the given channel.
C10_ManualEnqueueIdempotent ==
    \A k \in AllKeys, c \in Chats :
        queueSeq < MaxJobs =>
            LET e == ExistingJob(queue, k, {"pending", "running", "stopping"})
                r == enqueue_manual_recovery(queue, queueSeq, k, c)
            IN IF e # 0
               THEN r.id = e /\ r.queue = queue /\ r.seq = queueSeq
               ELSE /\ r.seq = queueSeq + 1
                    /\ r.id = queueSeq + 1
                    /\ \A i \in JobIds \ {r.id} : r.queue[i] = queue[i]
                    /\ r.queue[r.id].status = "pending"
                    /\ r.queue[r.id].retry = 0
                    /\ r.queue[r.id].last = 0
                    /\ r.queue[r.id].new = c
                    /\ r.queue[r.id].sg = k[1]
                    /\ r.queue[r.id].topic = k[2]

\* the panel is about to run enqueue_manual_recovery's SELECT for a topic
\* whose job is stopping
C10_Witness ==
    /\ op.pc = "menqr"
    /\ queueSeq < MaxJobs
    /\ JobsOf(queue, op.key, {"stopping"}) # {}

\* C11: mark_recovery_failed(id, retry_count=r, max_retry=m) sets the job's
\* status to pending iff r+1 < m and to failed otherwise; in both cases it
\* stores retry_count = r+1 and leaves last_cloned_message_id,
\* new_channel_chat_id and every other job as they are.
C11_MarkFailedTransition ==
    \A id \in JobIds, r \in 0..RetryCap, m \in 0..(RecoveryMaxRetry + 1) :
        Present(queue, id) =>
            LET q2 == mark_recovery_failed(queue, id, r, m)
            IN /\ q2[id].status = "pending" <=> r + 1 < m
               /\ q2[id].status = "failed" <=> ~(r + 1 < m)
               /\ q2[id].retry = r + 1
               /\ q2[id].last = queue[id].last
               /\ q2[id].new = queue[id].new
               /\ \A i \in JobIds \ {id} : q2[i] = queue[i]

\* run_once has called mark_recovery_failed on a job's last allowed attempt:
\* the job is failed with retry_count = max_retry
C11_Witness ==
    \E id \in JobIds :
        /\ queue[id].status = "failed"
        /\ queue[id].retry = RecoveryMaxRetry

PendingIds(q) == {i \in JobIds : q[i].status = "pending"}

\* C12: claim_next_recovery selects the pending job with the smallest id,
\* sets it to running and returns it with its stored checkpoint and
\* retry_count, changing no other job; with no pending job it claims
\* nothing; the job it returns is no longer pending, so a second claim
\* cannot return it, and two workers that have both just claimed hold
\* different jobs.
C12_ClaimNextAtomic ==
    [][/\ \A w \in Workers :
            claim_next_recovery(w) =>
                /\ PendingIds(queue) # {}
                /\ wk'[w].job.id \in PendingIds(queue)
                /\ \A j \in PendingIds(queue) : wk'[w].job.id <= j
                /\ queue'[wk'[w].job.id] =
                       [queue[wk'[w].job.id] EXCEPT !.status = "running"]
                /\ wk'[w].job.last = queue[wk'[w].job.id].last
                /\ wk'[w].job.retry = queue[wk'[w].job.id].retry
                /\ \A i \in JobIds \ {wk'[w].job.id} : queue'[i] = queue[i]
                /\ wk'[w].job.id \notin PendingIds(queue')
       /\ (wk'["loop"].pc = "resolve" /\ wk'["panel"].pc = "resolve")
              => wk'["loop"].job.id # wk'["panel"].job.id]_vars

\* the recovery loop and a panel run-once request have both just claimed,
\* the loop a job that was retried before
C12_Witness ==
    /\ wk["loop"].pc = "resolve"
    /\ wk["panel"].pc = "resolve"
    /\ wk["loop"].job.retry > 0

\* C13: upsert_binding flips the channel state atomically with the binding
\* write: between its statements no other store operation can find the new
\* active binding while the bound channel's row is still an available
\* standby (is_standby=1, in_use=0).
C13_UpsertBindingAtomic ==
    ( /\ op.pc = "bind2"
      /\ HasChannel(channels, op.chan)
      /\ bindings[op.key].active
      /\ bindings[op.key].channel = op.chan ) =>
        ~(get_channel(channels, op.chan).is_standby
          /\ ~get_channel(channels, op.chan).in_use)

\* C14: mark_recovery_done(id, c, summary, k) leaves the job with
\* status=done, new_channel_chat_id=c and last_cloned_message_id=k (the
\* stored checkpoint when k is not supplied) and does not change
\* retry_count or any other job, whatever mark_recovery_assigned_channel
\* and update_recovery_progress calls preceded it.
C14_MarkDoneFinalState ==
    \A id \in JobIds, c0 \in Chats, c \in Chats,
       p \in 0..histMax, k \in {None} \cup 0..histMax :
        Present(queue, id) =>
            LET q1 == update_recovery_progress(
                          mark_recovery_assigned_channel(queue, id, c0), id, p)
                direct == mark_recovery_done(queue, id, c, k)
                after == mark_recovery_done(q1, id, c, k)
            IN /\ direct[id].status = "done" /\ after[id].status = "done"
               /\ direct[id].new = c /\ after[id].new = c
               /\ direct[id].last = (IF k = None THEN queue[id].last ELSE k)
               /\ after[id].last = (IF k = None THEN p ELSE k)
               /\ direct[id].retry = queue[id].retry
               /\ after[id].retry = queue[id].retry
               /\ \A i \in JobIds \ {id} :
                      direct[i] = queue[i] /\ after[i] = queue[i]

\* run_once has finished a retried job: it is done with its assigned
\* channel, a checkpoint and the retry_count of its failed attempt
C14_Witness ==
    \E id \in JobIds :
        /\ queue[id].status = "done"
        /\ queue[id].new # NoChat
        /\ queue[id].last > 0
        /\ queue[id].retry > 0

\* C15: stop_recovery_task applies its transition to the status the job has
\* when the write commits: pending becomes stopped, running becomes
\* stopping, a job in any other status is left as it is; the checkpoint and
\* retry_count are never changed by stop.
C15_StopTransition ==
    [][(op.pc = "stopw" /\ op'.pc = "idle" /\ Present(queue, op.id)) =>
          LET before == queue[op.id]
              after == queue'[op.id]
          IN /\ before.status = "pending" => after.status = "stopped"
             /\ before.status = "running" => after.status = "stopping"
             /\ before.status \notin {"pending", "running"} =>
                    after.status = before.status
             /\ after.last = before.last
             /\ after.retry = before.retry]_vars

\* C16: requeue_recovery_task leaves a done job unchanged; a job in any
\* other status it sets to pending, zeroing retry_count and
\* last_cloned_message_id exactly when restart=true and preserving both
\* when restart=false.
C16_RequeueTransition ==
    [][(op.pc = "requeuew" /\ op'.pc = "idle" /\ Present(queue, op.id)) =>
          LET before == queue[op.id]
              after == queue'[op.id]
          IN IF before.status = "done"
             THEN after = before
             ELSE /\ after.status = "pending"
                  /\ op.restart => (after.retry = 0 /\ after.last = 0)
                  /\ ~op.restart => /\ after.retry = before.retry
                                    /\ after.last = before.last]_vars

\* C17: claim_recovery_by_id claims nothing when the job is missing, done or
\* already running; a job in any other status it sets to running, changing
\* nothing else, and returns the row with its stored checkpoint.
C17_ClaimByIdTransition ==
    [][\A id \in JobIds :
          claim_recovery_by_id("panel", id) =>
              /\ queue[id].status \in {"pending", "failed", "stopped", "stopping"}
              /\ queue' = [queue EXCEPT ![id].status = "running"]
              /\ wk'["panel"].job.id = id
              /\ wk'["panel"].job.last = queue[id].last
              /\ wk'["panel"].job.retry = queue[id].retry
              /\ wk'["panel"].job.new = queue[id].new]_vars

\* the job a run-by-id request claimed and now holds
ClaimedById(id) ==
    /\ wk["panel"].pc = "resolve"
    /\ wk["panel"].job.id = id
    /\ queue[id].status = "running"

\* a run-by-id request has just claimed a job that had failed on its last
\* allowed attempt and had a checkpoint stored
C17_Witness ==
    \E id \in JobIds :
        /\ ClaimedById(id)
        /\ wk["panel"].job.retry = RecoveryMaxRetry
        /\ wk["panel"].job.last > 0

\* C18: after a process start no job stays in status running while no
\* worker is executing it: the jobs a crash or shutdown left running are
\* reset to pending, with their checkpoints, before the recovery loop
\* claims any job.
C18_NoOrphanRunningJob ==
    \A id \in JobIds :
        queue[id].status = "running" =>
            \E w \in Workers : Busy(w) /\ wk[w].job.id = id

\* C19: delete_source_group does nothing while the group has a job in
\* running or stopping; otherwise it removes, in one step, the group and all
\* of its topics, bindings, banned-channel rows and recovery jobs, leaves the
\* rows of other groups as they are, and sets in_use=0 on exactly the
\* channels the group had bound that have no remaining active binding.
C19_DeleteSourceGroup ==
    [][\A g \in GroupIds :
          delete_source_group(g) =>
              /\ ~\E i \in JobIds : /\ queue[i].sg = g
                                    /\ queue[i].status \in {"running", "stopping"}
              /\ g \notin groups' /\ groups' = groups \ {g}
              /\ topics' = {k \in topics : k[1] # g}
              /\ banned' = {b \in banned : b[1] # g}
              /\ \A k \in AllKeys :
                    IF k[1] = g THEN ~bindings'[k].present
                    ELSE bindings'[k] = bindings[k]
              /\ \A i \in JobIds :
                    IF queue[i].sg = g THEN ~Present(queue', i)
                    ELSE queue'[i] = queue[i]
              /\ Len(channels') = Len(channels)
              /\ \A n \in 1..Len(channels) :
                    LET c == channels[n].chat_id
                        wasBound == \E k \in AllKeys :
                            k[1] = g /\ bindings[k].present /\ bindings[k].channel = c
                        stillActive == \E k \in AllKeys :
                            /\ bindings'[k].present /\ bindings'[k].active
                            /\ bindings'[k].channel = c
                    IN /\ channels'[n].chat_id = c
                       /\ channels'[n].is_standby = channels[n].is_standby
                       /\ channels'[n].in_use =
                             IF wasBound /\ ~stillActive THEN FALSE
                             ELSE channels[n].in_use]_vars

\* a source group was deleted while its topic's channel is still the active
\* binding of the other group's topic: the channel stays in use and the
\* other group's pending job stays queued
C19_Witness ==
    /\ groups = {2}
    /\ topics = {<<2, 1>>}
    /\ bindings[<<2, 1>>].active
    /\ get_channel(channels, bindings[<<2, 1>>].channel).in_use
    /\ ~bindings[<<1, 1>>].present
    /\ \E i \in JobIds : queue[i].sg = 2 /\ queue[i].status = "pending"
    /\ \E i \in JobIds : i <= queueSeq /\ ~Present(queue, i)

\* C20: scan_once runs the access check, and so records a ban and enqueues
\* a recovery, only for an active binding whose source group is enabled and
\* whose topic is enabled.
C20_MonitorSkipsDisabled ==
    [][\A k \in AllKeys :
          E_Detect("monitor", k) =>
              /\ bindings[k].active
              /\ k[1] \in sgEnabled
              /\ k \in topicEnabled]_vars

\* C21: with only the monitor and the recovery worker acting, a topic never
\* has two jobs in pending or running, and a scan whose enqueue_recovery
\* finds such a job returns it and adds nothing.
C21_OneQueuedJobPerTopic ==
    [][/\ \A k \in AllKeys :
            Cardinality(JobsOf(queue', k, {"pending", "running"})) <= 1
       /\ ( /\ enq.pc = "read" /\ enq' # enq
            /\ JobsOf(queue, enq.key, {"pending", "running"}) # {} )
              => (enq' = IdleEnq /\ queue' = queue /\ queueSeq' = queueSeq)]_vars

\* C22: when the listener's clone of a new message fails because the bound
\* target channel is unavailable (every call the Bot client made on it
\* raised a channel-unavailable error), the listener goes on to add the
\* BannedChannel row, enqueue a recovery job and notify.
C22_ListenerReportsUnavailable ==
    [][( /\ enq.pc = "lclone" /\ enq' # enq
         /\ enq.fwd[1] = "unavailable" /\ enq.cpy[1] = "unavailable" )
          => /\ enq'.pc = "ban"
             /\ enq'.key = enq.key /\ enq'.chan = enq.chan]_vars

\* C23: send_notification is best-effort: a failure while delivering the
\* notification, a failure to connect the Bot client included, never
\* propagates to its caller; run_once goes on to remove the ban after its
\* success notification.
C23_NotificationNeverRaises ==
    [][\A w \in Workers :
          (wk[w].pc = "notify" /\ wk'[w] # wk[w]) => wk'[w].pc = "rmban"]_vars

\* C24: only the recovery worker moves a job out of running to a terminal
\* status: a step that turns a running job into done, failed or stopped, or
\* removes its row, is a step of a run_once invocation.
C24_OnlyWorkerEndsRunning ==
    [][\A id \in JobIds :
          ( /\ queue[id].status = "running"
            /\ queue'[id].status \in {"done", "failed", "stopped", "absent"} )
              => \E w \in Workers : wk'[w] # wk[w] /\ wk[w].job.id = id]_vars

\* C25: when run_once has completed a job's history clone (clone_topic_history
\* returned and the job was marked done), then at the moment run_once
\* returns the job's row is gone from the recovery queue and no
\* BannedChannel row remains for the job's (source group, topic, old
\* channel).
C25_SuccessCleansUp ==
    [][\A w \in Workers :
          (wk[w].cloned /\ wk'[w].pc = "idle") =>
              /\ ~Present(queue', wk[w].job.id)
              /\ <<wk[w].job.sg, wk[w].job.topic, wk[w].job.old>> \notin banned']_vars

\* C26: when a running job is stopped, run_once leaves it in status stopped
\* with last_cloned_message_id equal to the checkpoint stored at that
\* moment (the last one persisted, never a lower one); and a continue of a
\* stopped job (requeue with restart=false, then a claim) starts the
\* history clone from that checkpoint.
C26_StopKeepsCheckpoint ==
    [][/\ \A w \in Workers :
            ( /\ wk[w].pc = "stopw" /\ wk'[w].pc = "idle"
              /\ Present(queue, wk[w].job.id) ) =>
                /\ queue'[wk[w].job.id].status = "stopped"
                /\ queue'[wk[w].job.id].last = queue[wk[w].job.id].last
                /\ queue'[wk[w].job.id].retry = queue[wk[w].job.id].retry
       /\ \A id \in JobIds :
            queue'[id].status = "stopped" =>
                LET q2 == requeue_write(queue', id, FALSE,
                                        queue'[id].retry, queue'[id].last)
                    r == StartClone([IdleW EXCEPT !.job = Snapshot(q2, id)], "c2")
                IN /\ q2[id].status = "pending"
                   /\ q2[id].last = queue'[id].last
                   /\ r.pos = Max(queue'[id].last, queue'[id].topic)
                   /\ queue'[id].last > 0 => r.pos = queue'[id].last]_vars

\* C27: with max_retry = m and no operator command, every claim made by
\* claim_next_recovery takes a pending job with retry_count < m; every failed
\* attempt raises the job's retry_count by exactly one and parks it in
\* failed exactly when the count reaches m; a failed job has retry_count = m
\* and is never touched again, so a job that always fails runs m times.
C27_RetriesBounded ==
    [][/\ \A id \in JobIds :
             /\ ( /\ wk["loop"].pc = "idle" /\ wk'["loop"].pc = "resolve"
                  /\ wk'["loop"].job.id = id ) =>
                   /\ queue[id].status = "pending"
                   /\ queue[id].retry < RecoveryMaxRetry
                   /\ wk'["loop"].job.retry = queue[id].retry
             /\ queue[id].status = "failed" => queue'[id] = queue[id]
             /\ queue'[id].status = "failed" => queue'[id].retry = RecoveryMaxRetry
             /\ Present(queue', id) => queue'[id].retry <= RecoveryMaxRetry
       /\ \A w \in Workers :
             (wk[w].pc = "failw" /\ wk'[w].pc = "idle" /\ Present(queue, wk[w].job.id)) =>
                 LET id == wk[w].job.id IN
                 /\ queue'[id].retry = queue[id].retry + 1
                 /\ queue'[id].status =
                      IF queue[id].retry + 1 >= RecoveryMaxRetry
                      THEN "failed" ELSE "pending"]_vars

\* a job has failed max_retry times in a row and is parked in failed, the
\* recovery loop idle again
C27_Witness ==
    \E id \in JobIds :
        /\ queue[id].status = "failed"
        /\ queue[id].retry = RecoveryMaxRetry
        /\ wk["loop"].pc = "idle"
        /\ ~wk["loop"].cloned

\* C28: the checkpoint never advances past a failure: when the delivery of
\* an in-topic unit (a single message or an album) fails, no progress hook
\* call of this run has been made with a value at or above that unit's
\* message id, and the job's stored last_cloned_message_id is below it.
C28_CheckpointBehindFailure ==
    [][\A w \in Workers :
          (wk[w].pc = "clone" /\ wk'[w].pc = "except") =>
              /\ \A i \in 1..Len(wk[w].hookLog) : wk[w].hookLog[i] < wk[w].cur
              /\ Present(queue, wk[w].job.id) =>
                    queue[wk[w].job.id].last < wk[w].cur]_vars

\* C29: normalize_chat_ref returns a value for every reference that is not
\* empty (blanks trimmed) and raises for the empty one; applying it to its
\* own result gives the same result; t.me/c/<digits>/... gives the integer
\* -100<digits>, a string of digits gives that integer, a plain name gives
\* "@" + name, and a t.me/<name>/... link gives "@" + name.
C29_NormalizeChatRef ==
    /\ chop.pc \in {"normalized", "again"} =>
         LET x == chop.chat_ref
             v == chop.out
             IsName(s) == s # <<>> /\ \A i \in 1..Len(s) : s[i] \in {"a", "c"}
             EndsSegment(s, n) == n = Len(s) \/ s[n + 1] = "/"
         IN /\ StripBoth(x, " ") # <<>> => v.kind # "raise"
            /\ x = <<>> => v.kind = "raise"
            /\ \A n \in 5..Len(x) :
                 ( /\ SubSeq(x, 1, 4) = <<"t.me", "/", "c", "/">>
                   /\ \A i \in 5..n : x[i] = "5"
                   /\ EndsSegment(x, n) ) =>
                     /\ v.kind = "int"
                     /\ v.num = 0 - (100 * Pow10(n - 4) + DigitsValue(SubSeq(x, 5, n)))
            /\ IsDigit(x) => v.kind = "int" /\ v.num = DigitsValue(x)
            /\ IsName(x) => v.kind = "str" /\ v.text = <<"@">> \o x
            /\ \A n \in 3..Len(x) :
                 ( /\ SubSeq(x, 1, 2) = <<"t.me", "/">>
                   /\ IsName(SubSeq(x, 3, n))
                   /\ EndsSegment(x, n)
                   /\ ~(n = 3 /\ x[3] = "c" /\ Len(x) >= 5 /\ x[5] = "5") ) =>
                     v.kind = "str" /\ v.text = <<"@">> \o SubSeq(x, 3, n)
    /\ chop.pc = "again" => chop.out2 = chop.out

\* C30: no recovery job is processed by two invocations of run_once at
\* the same time: two invocations that are both between their claim and
\* their return hold different jobs, also after the job was stopped.
C30_NoJobRunTwice ==
    \A w1 \in Workers, w2 \in Workers :
        (w1 # w2 /\ wk[w1].pc # "idle" /\ wk[w2].pc # "idle") =>
            wk[w1].job.id # wk[w2].job.id

\* C31: a stop request is never lost: a step of run_once that finds a job
\* in status stopping leaves it stopping or sets it stopped; it never
\* writes done, pending or failed over it.
C31_StopRequestKept ==
    [][\A id \in JobIds :
          (queue[id].status = "stopping" /\ wk' # wk) =>
              queue'[id].status \notin {"done", "pending", "failed"}]_vars

\* C32: clone_topic_history checks should_stop before every unit: with the
\* job's row in stopping or stopped (or gone), the step that takes the next
\* message from the iterator never starts cloning it; it raises the stop
\* marker, or, at the end of the history, goes to the final progress hook,
\* which raises it; a unit already in progress is the only one sent.
C32_StopBeforeEachUnit ==
    [][\A w \in Workers :
          LET id == wk[w].job.id
              visible == \/ queue[id].status \in {"stopping", "stopped"}
                         \/ queue[id].status = "absent"
          IN (wk[w].pc \in {"iter", "hook", "clone"} /\ visible /\ wk'[w] # wk[w]) =>
               /\ wk[w].pc = "iter" =>
                    \/ wk'[w].pc = "except"
                    \/ wk'[w].pc = "hook" /\ wk'[w].final
               /\ wk[w].pc = "hook" =>
                    wk'[w].pc = "except" /\ wk'[w].err = "stopped"
               /\ wk[w].pc = "clone" => wk'[w].pc \in {"iter", "hook", "except"}]_vars

\* the stop request became visible while a unit was in progress, and the
\* next check of should_stop has raised the stop marker
C32_Witness ==
    /\ wk["loop"].pc = "except"
    /\ wk["loop"].err = "stopped"
    /\ queue[wk["loop"].job.id].status = "stopping"

\* C33: in clone_topic_history the progress hook is called when, and only
\* when, five units have been processed since its last call, with a value
\* not below the id of the unit just processed, and once more when the
\* iteration is over, before the call returns; between two calls fewer than
\* five processed units are waiting, and a unit whose clone fails leads to
\* no hook call.
C33_HookEveryFiveUnits ==
    [][\A w \in Workers :
          /\ wk'[w].pc \in {"iter", "clone"} => wk'[w].pend < 5
          /\ (wk'[w].pc = "hook" /\ wk[w].pc # "hook" /\ ~wk'[w].final) =>
                /\ wk[w].pc = "clone"
                /\ wk'[w].pend = 5
                /\ wk'[w].ckpt >= wk'[w].pos
          /\ (wk[w].pc = "clone" /\ wk'[w].pc = "iter") => wk'[w].pend = wk[w].pend + 1
          /\ (wk[w].pc = "hookw" /\ wk'[w].pc = "iter") => wk'[w].pend = 0
          /\ (wk'[w].pc = "hook" /\ wk[w].pc # "hook" /\ wk'[w].final) =>
                wk[w].pc = "iter"
          /\ (wk'[w].pc = "markdone" /\ wk[w].pc # "markdone") =>
                wk[w].pc = "hookw" /\ wk[w].final
          /\ (wk[w].pc = "clone" /\ wk'[w].pc = "except") =>
                wk'[w].hookLog = <<>>]_vars

\* the hook has been called after the fifth unit and is now called once
\* more at the end of the iteration
C33_Witness ==
    /\ wk["loop"].pc = "hookw"
    /\ wk["loop"].final
    /\ Len(wk["loop"].hookLog) = 2

\* C34: a claimed job that carries new_channel_chat_id is cloned into that
\* channel with no standby consumed, no rename and no binding change; a
\* job whose row has recorded its channel never consumes a standby again;
\* and one job consumes at most one standby channel over its whole life.
C34_OneStandbyPerJob ==
    [][/\ \A w \in Workers :
            /\ (wk[w].pc = "select" /\ wk[w].job.new # NoChat /\ wk'[w] # wk[w]) =>
                  /\ wk'[w].pc = "iter"
                  /\ wk'[w].chan = wk[w].job.new
                  /\ channels' = channels
                  /\ bindings' = bindings
            /\ (wk[w].pc = "consume" /\ wk'[w].pc = "detach") =>
                  queue[wk[w].job.id].new = NoChat
       /\ Cardinality({id \in JobIds : Present(queue', id)}) = 1 =>
            Cardinality({i \in 1..Len(channels') :
                            /\ channels'[i].chat_id \in {"c2", "c3"}
                            /\ channels'[i].in_use}) <= 1]_vars

\* C35: a channel write of refresh_standby_channels leaves a channel an
\* available standby (is_standby=1, in_use=0) only if it is one when the
\* write runs; a channel consumed or bound by a recovery in the meantime
\* is not put back, and no row that is not a standby becomes one.
C35_RefreshKeepsPool ==
    [][(chop.pc = "write" /\ chop.kind = "refresh" /\ chop' # chop) =>
          \A c \in Chats :
              (HasChannel(channels', c) /\ get_channel(channels', c).is_standby) =>
                  /\ HasChannel(channels, c)
                  /\ get_channel(channels, c).is_standby
                  /\ ~get_channel(channels, c).in_use]_vars

C37_DoneIsTerminal ==
    [][\A id \in JobIds :
          queue[id].status = "done" =>
              queue'[id].status \in {"done", "absent"}]_vars

\* C38: every job that enters stopping eventually reaches stopped, the
\* recovery loop being scheduled fairly: also when the stop request is
\* written after the worker has finished the attempt, and when the
\* process restarts while the job is stopping.
C38_StoppingReachesStopped ==
    \A id \in JobIds :
        (queue[id].status = "stopping") ~> (queue[id].status = "stopped")

\* C39: with the recovery loop scheduled fairly and no operator command,
\* every pending job is eventually claimed (running) and eventually
\* leaves the non-terminal statuses: its row is removed after completion,
\* or it parks in failed or stopped; a failing job with a smaller id does
\* not keep a later pending job waiting forever.
C39_PendingJobsFinish ==
    \A id \in JobIds :
        /\ (queue[id].status = "pending") ~> (queue[id].status = "running")
        /\ (queue[id].status = "pending") ~>
               (queue[id].status \in {"absent", "failed", "stopped"})

\* the first job has failed once and is pending again ahead of a second
\* pending job
C39_Witness ==
    /\ queue[1].status = "pending" /\ queue[1].retry > 0
    /\ queue[2].status = "pending"

====
